---- MODULE Spec2Model ----
(***************************************************************************)
(* Chunking / grouping / summary-aggregation pipeline of                   *)
(* ai-summarized-news: contentChunker.ts, chunkGroupSummarizer.ts,         *)
(* crawlerDb.ts and types/chunking.ts.                                     *)
(*                                                                         *)
(* Strings are sequences of one-character strings; offsets are the         *)
(* 0-based offsets of the TypeScript source (the character at offset p is  *)
(* text[p+1]).                                                             *)
(***************************************************************************)
EXTENDS Integers, Sequences, FiniteSets, TLC

VARIABLES
    \* ---- ContentChunkerWorker.chunkText, one run of the packer ----
    text,            \* the argument of chunkText
    config,          \* this.config (ChunkingConfig)
    boundaries,      \* the local boundaries (after the final push)
    bpos,            \* how many boundaries the for-of loop has consumed
    chunks,          \* the local chunks
    currentChunk,
    currentTokens,
    lastBoundary,
    seeds,           \* history: for each emitted chunk, the overlap seed it started with
    curSeed,         \* history: the overlap seed of the chunk under construction
    fidx,            \* the loop variable i of fallbackChunking
    cpc              \* position in chunkText: "start", "loop", "fallback", "done"

VARIABLES
    \* ---- the Pipeline State Store (PostgreSQL) ----
    crawled_content,     \* set of rows
    content_chunks,      \* set of rows
    chunk_groups,        \* set of rows
    summarized_content,  \* set of rows
    \* ---- the staging buffer (Redis lists partial_summaries:<id>) ----
    partial_summaries,   \* content id -> list, head first
    \* ---- the workers ----
    chunker,             \* loop of a ContentChunkerWorker -> its locals
    summarizer,          \* loop of a ChunkGroupSummarizerWorker -> its locals
    chunkerWorker,       \* the ContentChunkerWorker instances (see workerStarted)
    summarizerWorker,    \* the ChunkGroupSummarizerWorker instances
    \* ---- the environment ----
    crawlsLeft,          \* crawls the crawler may still save
    faultsLeft,          \* store and summarizer errors that may still occur
    callsLeft,           \* calls of start, stop and cleanup that may still be made
    \* ---- a Redis work queue and the workers consuming it ----
    queue,               \* the list, head first
    consumer,            \* consuming worker -> its position in processBatch
    returned,            \* entries some lRange call has returned to a worker
    pushed               \* entries pushed so far

\* the variables the steps of a batch leave alone
lifeVars == <<chunkerWorker, summarizerWorker, callsLeft>>

\* the work queue and its consumers
queueVars == <<queue, consumer, returned, pushed>>
\* the store, the staging buffer, the two pipeline workers and their budgets
stageVars == <<crawled_content, content_chunks, chunk_groups, summarized_content,
               partial_summaries, chunker, summarizer, crawlsLeft, faultsLeft,
               lifeVars>>
pipeVars == <<stageVars, queueVars>>

chunkVars == <<text, config, boundaries, bpos, chunks, currentChunk,
               currentTokens, lastBoundary, seeds, curSeed, fidx, cpc>>

vars == <<chunkVars, pipeVars>>

(***************************************************************************)
(* JavaScript string primitives                                            *)
(***************************************************************************)
WhiteSpace == {" ", "\n", "\t", "\r"}
LineTerminators == {"\n", "\r"}
UpperCase == {"A", "B", "C", "D", "E", "F", "G", "H", "I", "J", "K", "L", "M",
              "N", "O", "P", "Q", "R", "S", "T", "U", "V", "W", "X", "Y", "Z"}
SentenceEnd == {".", "!", "?"}

SetMin(S) == CHOOSE x \in S : \A y \in S : x <= y
SetMax(S) == CHOOSE x \in S : \A y \in S : x >= y

\* the character at 0-based offset p
At(s, p) == s[p + 1]

\* String.prototype.slice(a, b); a negative index counts from the end
sliceIndex(s, k) ==
    IF k < 0 THEN (IF Len(s) + k > 0 THEN Len(s) + k ELSE 0)
    ELSE IF k < Len(s) THEN k ELSE Len(s)

slice(s, a, b) ==
    IF sliceIndex(s, a) < sliceIndex(s, b)
    THEN SubSeq(s, sliceIndex(s, a) + 1, sliceIndex(s, b))
    ELSE <<>>

\* String.prototype.trim()
trim(s) ==
    LET keep == {i \in 1..Len(s) : s[i] \notin WhiteSpace}
    IN  IF keep = {} THEN <<>> ELSE SubSeq(s, SetMin(keep), SetMax(keep))

\* s with every whitespace character removed (whitespace normalisation)
RECURSIVE stripWs(_)
stripWs(s) ==
    IF s = <<>> THEN <<>>
    ELSE IF Head(s) \in WhiteSpace THEN stripWs(Tail(s))
    ELSE <<Head(s)>> \o stripWs(Tail(s))

\* whether lit occurs in s at offset p
StartsWith(s, p, lit) ==
    /\ p + Len(lit) <= Len(s)
    /\ SubSeq(s, p + 1, p + Len(lit)) = lit

\* String.prototype.lastIndexOf(lit), -1 when absent
lastIndexOf(s, lit) ==
    LET hits == {p \in 0..Len(s) : StartsWith(s, p, lit)}
    IN  IF hits = {} THEN -1 ELSE SetMax(hits)

\* Math.ceil(text.length / 4)
estimateTokenCount(s) == (Len(s) + 3) \div 4

(***************************************************************************)
(* findTextBoundaries: the four regular expressions.  Each XMatchEnd(s, i) *)
(* is the end offset of the match of the expression anchored at offset i,  *)
(* or -1 when it does not match there.                                     *)
(***************************************************************************)

\* end of the maximal run of characters of class C starting at offset p
RunEnd(s, p, C) ==
    SetMin({q \in p..Len(s) : q = Len(s) \/ At(s, q) \notin C})

\* /\n\s*\n/ : \s* is greedy, so the match ends after the last newline of
\* the whitespace run that follows the first newline
paragraphMatchEnd(s, i) ==
    IF At(s, i) # "\n" THEN -1
    ELSE LET e  == RunEnd(s, i + 1, WhiteSpace)
             nl == {k \in (i + 1)..(e - 1) : At(s, k) = "\n"}
         IN  IF nl = {} THEN -1 ELSE SetMax(nl) + 1

\* /\n#+\s+.+\n/ : #+ must take the whole run of #; \s+ is greedy and gives
\* back characters until ".+\n" matches: . is any character but a line
\* terminator, .+ is greedy and must be followed by \n
sectionMatchEnd(s, i) ==
    IF At(s, i) # "\n" THEN -1
    ELSE LET h == RunEnd(s, i + 1, {"#"})
             w == RunEnd(s, h, WhiteSpace)
             ok == {p \in (h + 1)..w :
                       /\ p < Len(s)
                       /\ At(s, p) \notin LineTerminators
                       /\ LET e == SetMin({q \in p..Len(s) :
                                      q = Len(s) \/ At(s, q) \in LineTerminators})
                          IN  e < Len(s) /\ At(s, e) = "\n"}
         IN  IF h = i + 1 \/ ok = {} THEN -1
             ELSE LET p == SetMax(ok)
                  IN  SetMin({q \in p..(Len(s) - 1) : At(s, q) \in LineTerminators}) + 1

\* the backquote character (a TLA+ string cannot hold it)
BackQuote == "BACKQUOTE"
\* the code fence: three backquotes
Fence == <<BackQuote, BackQuote, BackQuote>>
PreOpen == <<"<", "p", "r", "e", ">">>
PreClose == <<"<", "/", "p", "r", "e", ">">>

\* open [\s\S]*? close : the lazy body stops at the first close after open
delimitedEnd(s, i, open, close) ==
    LET from == i + Len(open)
        hits == {q \in from..Len(s) : StartsWith(s, q, close)}
    IN  IF ~StartsWith(s, i, open) \/ hits = {} THEN -1
        ELSE SetMin(hits) + Len(close)

\* /(FENCE[\s\S]*?FENCE|<pre>[\s\S]*?<\/pre>)/
codeBlockMatchEnd(s, i) ==
    IF delimitedEnd(s, i, Fence, Fence) >= 0
    THEN delimitedEnd(s, i, Fence, Fence)
    ELSE delimitedEnd(s, i, PreOpen, PreClose)

\* /[.!?]\s+(?=[A-Z])/ : \s+ must take the whole whitespace run, the
\* lookahead then needs an upper-case letter
sentenceMatchEnd(s, i) ==
    IF At(s, i) \notin SentenceEnd THEN -1
    ELSE LET w == RunEnd(s, i + 1, WhiteSpace)
         IN  IF w > i + 1 /\ w < Len(s) /\ At(s, w) \in UpperCase THEN w ELSE -1

\* while ((match = regex.exec(text)) !== null) with the g flag: the
\* leftmost match at or after lastIndex, then lastIndex = its end
RECURSIVE execAll(_, _, _)
execAll(MatchEnd(_, _), s, from) ==
    LET starts == {i \in from..(Len(s) - 1) : MatchEnd(s, i) >= 0}
    IN  IF starts = {} THEN <<>>
        ELSE LET i == SetMin(starts)
                 e == MatchEnd(s, i)
             IN  <<[index |-> i, end |-> e]>> \o execAll(MatchEnd, s, e)

TextBoundary(i, t, p) == [index |-> i, type |-> t, priority |-> p]

\* Array.prototype.sort((a, b) => a.index - b.index), which is stable
RECURSIVE sortByIndex(_)
sortByIndex(bs) ==
    IF bs = <<>> THEN <<>>
    ELSE LET b    == Head(bs)
             rest == sortByIndex(Tail(bs))
             less == {k \in 1..Len(rest) : rest[k].index < b.index}
             n    == IF less = {} THEN 0 ELSE SetMax(less)
         IN  SubSeq(rest, 1, n) \o <<b>> \o SubSeq(rest, n + 1, Len(rest))

RECURSIVE codeBlockBoundaries(_)
codeBlockBoundaries(ms) ==
    IF ms = <<>> THEN <<>>
    ELSE <<TextBoundary(Head(ms).index, "code_block", 85),
           TextBoundary(Head(ms).end, "code_block", 85)>>
         \o codeBlockBoundaries(Tail(ms))

findTextBoundaries(s) ==
    LET para == execAll(paragraphMatchEnd, s, 0)
        sect == execAll(sectionMatchEnd, s, 0)
        code == execAll(codeBlockMatchEnd, s, 0)
        sent == execAll(sentenceMatchEnd, s, 0)
    IN  sortByIndex(
            [k \in 1..Len(para) |-> TextBoundary(para[k].end, "paragraph", 100)]
         \o [k \in 1..Len(sect) |-> TextBoundary(sect[k].end, "section", 90)]
         \o codeBlockBoundaries(code)
         \o [k \in 1..Len(sent) |-> TextBoundary(sent[k].index + 1, "sentence", 50)])

(***************************************************************************)
(* ContentChunkerWorker: the packer                                        *)
(***************************************************************************)

\* getOverlapText with the slip of taking the overlap from the start of
\* the chunk instead of its end
getOverlapTextFromStart(chunk, overlapTokens) ==
    LET overlapChars == overlapTokens * 4
    IN  IF Len(chunk) <= overlapChars THEN chunk
        ELSE slice(chunk, 0, overlapChars)

\* private getOverlapText(chunk, overlapTokens)
getOverlapText(chunk, overlapTokens) ==
    LET overlapChars     == overlapTokens * 4
        startIndex       == IF Len(chunk) - overlapChars > 0
                            THEN Len(chunk) - overlapChars ELSE 0
        overlapSection   == slice(chunk, startIndex, Len(chunk))
        sentenceBoundary == lastIndexOf(overlapSection, <<".", " ">>)
    IN  IF Len(chunk) <= overlapChars THEN chunk
        ELSE IF 2 * sentenceBoundary > overlapChars
             THEN slice(chunk, startIndex + sentenceBoundary + 2, Len(chunk))
             ELSE overlapSection

\* the locals of chunkText before the loop (seeds, curSeed: history only)
packerStart ==
    [chunks |-> <<>>, currentChunk |-> <<>>, currentTokens |-> 0,
     lastBoundary |-> 0, seeds |-> <<>>, curSeed |-> <<>>]

\* which branch the loop body takes for this boundary
packBranch(st, s, cfg, boundary) ==
    LET segmentTokens == estimateTokenCount(slice(s, st.lastBoundary, boundary.index))
    IN  IF st.currentTokens + segmentTokens > cfg.maxTokensPerChunk
           /\ Len(st.currentChunk) > 0
        THEN IF st.currentTokens >= cfg.minTokensPerChunk
             THEN "finalize" ELSE "force"
        ELSE "append"

\* packSegment with the slip of seeding the next chunk with the overlap
\* alone: the segment that triggered the cut is lost
packSegmentLosesSegment(st, s, cfg, boundary) ==
    LET segmentText   == slice(s, st.lastBoundary, boundary.index)
        segmentTokens == estimateTokenCount(segmentText)
        overlapText   == getOverlapText(st.currentChunk, cfg.overlapTokens)
    IN  IF packBranch(st, s, cfg, boundary) = "finalize"
        THEN [chunks        |-> Append(st.chunks, trim(st.currentChunk)),
              currentChunk  |-> overlapText,
              currentTokens |-> estimateTokenCount(overlapText),
              lastBoundary  |-> boundary.index,
              seeds         |-> Append(st.seeds, st.curSeed),
              curSeed       |-> overlapText]
        ELSE [chunks        |-> st.chunks,
              currentChunk  |-> st.currentChunk \o segmentText,
              currentTokens |-> st.currentTokens + segmentTokens,
              lastBoundary  |-> boundary.index,
              seeds         |-> st.seeds,
              curSeed       |-> st.curSeed]

\* one iteration of "for (const boundary of boundaries)"
packSegment(st, s, cfg, boundary) ==
    LET segmentText   == slice(s, st.lastBoundary, boundary.index)
        segmentTokens == estimateTokenCount(segmentText)
        overlapText   == getOverlapText(st.currentChunk, cfg.overlapTokens)
    IN  IF packBranch(st, s, cfg, boundary) = "finalize"
        THEN IF cfg.overlapTokens > 0
             THEN [chunks        |-> Append(st.chunks, trim(st.currentChunk)),
                   currentChunk  |-> overlapText \o segmentText,
                   currentTokens |-> estimateTokenCount(overlapText \o segmentText),
                   lastBoundary  |-> boundary.index,
                   seeds         |-> Append(st.seeds, st.curSeed),
                   curSeed       |-> overlapText]
             ELSE [chunks        |-> Append(st.chunks, trim(st.currentChunk)),
                   currentChunk  |-> segmentText,
                   currentTokens |-> segmentTokens,
                   lastBoundary  |-> boundary.index,
                   seeds         |-> Append(st.seeds, st.curSeed),
                   curSeed       |-> <<>>]
        ELSE [chunks        |-> st.chunks,
              currentChunk  |-> st.currentChunk \o segmentText,
              currentTokens |-> st.currentTokens + segmentTokens,
              lastBoundary  |-> boundary.index,
              seeds         |-> st.seeds,
              curSeed       |-> st.curSeed]

\* "Add final chunk if it has content"
packFinal(st) ==
    IF Len(trim(st.currentChunk)) > 0
    THEN [st EXCEPT !.chunks = Append(st.chunks, trim(st.currentChunk)),
                    !.seeds  = Append(st.seeds, st.curSeed)]
    ELSE st

\* one iteration of the loop of fallbackChunking, at window start i
fallbackSlice(out, s, cfg, i) ==
    LET chunk == slice(s, i, i + cfg.maxCharsPerChunk)
    IN  IF Len(trim(chunk)) > 0 THEN Append(out, trim(chunk)) ELSE out

\* private fallbackChunking(text), for a positive step
RECURSIVE fallbackFrom(_, _, _, _)
fallbackFrom(out, s, cfg, i) ==
    IF i < Len(s)
    THEN fallbackFrom(fallbackSlice(out, s, cfg, i), s, cfg,
                      i + (cfg.maxCharsPerChunk - cfg.overlapChars))
    ELSE out

fallbackChunking(s, cfg) == fallbackFrom(<<>>, s, cfg, 0)

\* the boundaries chunkText walks: those found, then the final one
allBoundaries(s) ==
    Append(findTextBoundaries(s), TextBoundary(Len(s), "paragraph", 100))

RECURSIVE packLoop(_, _, _, _)
packLoop(st, s, cfg, bs) ==
    IF bs = <<>> THEN st
    ELSE packLoop(packSegment(st, s, cfg, Head(bs)), s, cfg, Tail(bs))

\* chunkText(text, contentType) as a function of its argument
chunkText(s, cfg) ==
    LET st == packFinal(packLoop(packerStart, s, cfg, allBoundaries(s)))
    IN  IF Len(st.chunks) = 0 /\ Len(s) > 0
        THEN fallbackChunking(s, cfg)
        ELSE st.chunks

(***************************************************************************)
(* chunkText run step by step on one text                                  *)
(***************************************************************************)
Packer ==
    [chunks |-> chunks, currentChunk |-> currentChunk,
     currentTokens |-> currentTokens, lastBoundary |-> lastBoundary,
     seeds |-> seeds, curSeed |-> curSeed]

SetPacker(st) ==
    /\ chunks' = st.chunks
    /\ currentChunk' = st.currentChunk
    /\ currentTokens' = st.currentTokens
    /\ lastBoundary' = st.lastBoundary
    /\ seeds' = st.seeds
    /\ curSeed' = st.curSeed

\* lines 91-99: the locals, the boundaries and the final boundary
ChunkTextBegin ==
    /\ cpc = "start"
    /\ boundaries' = allBoundaries(text)
    /\ bpos' = 0
    /\ SetPacker(packerStart)
    /\ cpc' = "loop"
    /\ UNCHANGED <<text, config, fidx>>
    /\ UNCHANGED pipeVars

\* the branch the loop body takes at the next boundary
nextBranch == packBranch(Packer, text, config, boundaries[bpos + 1])

\* lines 101-132: the loop body at the next boundary
PackStep ==
    /\ SetPacker(packSegment(Packer, text, config, boundaries[bpos + 1]))
    /\ bpos' = bpos + 1
    /\ UNCHANGED <<text, config, boundaries, cpc, fidx>>
    /\ UNCHANGED pipeVars

\* the segment fits, or the chunk under construction is empty
PackAppend ==
    /\ cpc = "loop" /\ bpos < Len(boundaries)
    /\ nextBranch = "append"
    /\ PackStep

\* the chunk under construction is emitted and the next one seeded
PackFinalize ==
    /\ cpc = "loop" /\ bpos < Len(boundaries)
    /\ nextBranch = "finalize"
    /\ PackStep

\* the chunk under construction is below the minimum: overflow accepted
PackForce ==
    /\ cpc = "loop" /\ bpos < Len(boundaries)
    /\ nextBranch = "force"
    /\ PackStep

\* lines 134-144, when the fallback is not taken
ChunkTextReturn ==
    /\ cpc = "loop"
    /\ bpos = Len(boundaries)
    /\ ~(Len(packFinal(Packer).chunks) = 0 /\ Len(text) > 0)
    /\ SetPacker(packFinal(Packer))
    /\ cpc' = "done"
    /\ UNCHANGED <<text, config, boundaries, bpos, fidx>>
    /\ UNCHANGED pipeVars

\* lines 140-141 and 151-153: the fallback is entered
FallbackBegin ==
    /\ cpc = "loop"
    /\ bpos = Len(boundaries)
    /\ Len(packFinal(Packer).chunks) = 0 /\ Len(text) > 0
    /\ SetPacker([packerStart EXCEPT !.currentChunk = currentChunk])
    /\ fidx' = 0
    /\ cpc' = "fallback"
    /\ UNCHANGED <<text, config, boundaries, bpos>>
    /\ UNCHANGED pipeVars

\* how far below 0 the window start is followed when the step is negative
MaxRewind == 3

\* lines 155-160: one iteration of the fallback loop
FallbackStep ==
    /\ cpc = "fallback"
    /\ fidx < Len(text)
    /\ fidx > -MaxRewind
    /\ chunks' = fallbackSlice(chunks, text, config, fidx)
    /\ seeds' = [k \in 1..Len(chunks') |-> <<>>]
    /\ fidx' = fidx + (config.maxCharsPerChunk - config.overlapChars)
    /\ UNCHANGED <<text, config, boundaries, bpos, currentChunk,
                   currentTokens, lastBoundary, curSeed, cpc>>
    /\ UNCHANGED pipeVars

\* line 162
FallbackReturn ==
    /\ cpc = "fallback"
    /\ fidx >= Len(text)
    /\ cpc' = "done"
    /\ UNCHANGED <<text, config, boundaries, bpos, chunks, currentChunk,
                   currentTokens, lastBoundary, seeds, curSeed, fidx>>
    /\ UNCHANGED pipeVars

(***************************************************************************)
(* ContentChunkerWorker.createChunkGroups                                  *)
(***************************************************************************)

\* Array.prototype.join(sep) over a list of strings
RECURSIVE join(_, _)
join(ss, sep) ==
    IF ss = <<>> THEN <<>>
    ELSE IF Len(ss) = 1 THEN Head(ss)
    ELSE Head(ss) \o sep \o join(Tail(ss), sep)

RECURSIVE sum(_)
sum(ns) == IF ns = <<>> THEN 0 ELSE Head(ns) + sum(Tail(ns))

\* Array.prototype.slice(a, b) over a list
sliceList(xs, a, b) == SubSeq(xs, a + 1, IF b < Len(xs) THEN b ELSE Len(xs))

\* in place of chunkGroupAt: the window is as long as the step
chunkGroupAtStepWindow(chunkList, cfg, i) ==
    LET groupChunks == sliceList(chunkList, i, i + cfg.chunksPerGroup)
    IN  [crawled_content_id |-> chunkList[1].crawled_content_id,
         chunk_ids       |-> [k \in 1..Len(groupChunks) |-> groupChunks[k].id],
         group_index     |-> i \div cfg.chunksPerGroup,
         combined_text   |-> join([k \in 1..Len(groupChunks) |-> groupChunks[k].chunk_text],
                                  <<"\n", "\n">>),
         combined_tokens |-> sum([k \in 1..Len(groupChunks) |-> groupChunks[k].token_count]),
         status          |-> "pending"]

\* the object pushed for the window that starts at chunk position i
chunkGroupAt(chunkList, cfg, i) ==
    LET groupChunks == sliceList(chunkList, i, i + cfg.maxChunksPerGroup)
    IN  [crawled_content_id |-> chunkList[1].crawled_content_id,
         chunk_ids       |-> [k \in 1..Len(groupChunks) |-> groupChunks[k].id],
         group_index     |-> i \div cfg.chunksPerGroup,
         combined_text   |-> join([k \in 1..Len(groupChunks) |-> groupChunks[k].chunk_text],
                                  <<"\n", "\n">>),
         combined_tokens |-> sum([k \in 1..Len(groupChunks) |-> groupChunks[k].token_count]),
         status          |-> "pending"]

\* for (let i = 0; i < chunks.length; i += chunksPerGroup)
RECURSIVE chunkGroupsFrom(_, _, _)
chunkGroupsFrom(chunkList, cfg, i) ==
    IF i < Len(chunkList)
    THEN <<chunkGroupAt(chunkList, cfg, i)>>
         \o chunkGroupsFrom(chunkList, cfg, i + cfg.chunksPerGroup)
    ELSE <<>>

createChunkGroups(chunkList, cfg) == chunkGroupsFrom(chunkList, cfg, 0)

(***************************************************************************)
(* The store: tables are sets of rows; SERIAL ids count the rows (no row   *)
(* is ever deleted), created_at orders rows like id does.                  *)
(***************************************************************************)
NULL == "NULL"

\* ORDER BY key ASC over rows with distinct values in that column
RECURSIVE orderBy(_, _)
orderBy(rows, key) ==
    IF rows = {} THEN <<>>
    ELSE LET r == CHOOSE r \in rows : \A q \in rows : r[key] <= q[key]
         IN  <<r>> \o orderBy(rows \ {r}, key)

\* LIMIT n
limit(rows, n) == SubSeq(rows, 1, IF n < Len(rows) THEN n ELSE Len(rows))

\* CrawlerDbWorker.saveCrawledContent: INSERT INTO crawled_content ...
\* ON CONFLICT (url) DO UPDATE SET ..., status = 'pending'
saveCrawledContent(table, url, raw_text, crawled_at) ==
    IF \E r \in table : r.url = url
    THEN {IF r.url = url
          THEN [r EXCEPT !.raw_text = raw_text, !.crawled_at = crawled_at,
                         !.status = "pending"]
          ELSE r : r \in table}
    ELSE table \cup {[id |-> Cardinality(table) + 1, url |-> url,
                      raw_text |-> raw_text, crawled_at |-> crawled_at,
                      status |-> "pending"]}

\* the INSERT of saveChunks without its ON CONFLICT clause, on a table
\* without the unique key
insertChunkNoConflict(table, contentId, i, chunkTxt, tokenCount) ==
    table \cup {[id |-> Cardinality(table) + 1,
                 crawled_content_id |-> contentId, chunk_index |-> i,
                 chunk_text |-> chunkTxt, token_count |-> tokenCount]}

\* saveChunks: INSERT INTO content_chunks ... ON CONFLICT
\* (crawled_content_id, chunk_index) DO UPDATE SET chunk_text, token_count
insertChunk(table, contentId, i, chunkTxt, tokenCount) ==
    IF \E r \in table : r.crawled_content_id = contentId /\ r.chunk_index = i
    THEN {IF r.crawled_content_id = contentId /\ r.chunk_index = i
          THEN [r EXCEPT !.chunk_text = chunkTxt, !.token_count = tokenCount]
          ELSE r : r \in table}
    ELSE table \cup {[id |-> Cardinality(table) + 1,
                      crawled_content_id |-> contentId, chunk_index |-> i,
                      chunk_text |-> chunkTxt, token_count |-> tokenCount]}

\* RETURNING id of that statement
chunkRowId(table, contentId, i) ==
    (CHOOSE r \in table : r.crawled_content_id = contentId /\ r.chunk_index = i).id

\* saveChunkGroups: INSERT INTO chunk_groups ... ON CONFLICT
\* (crawled_content_id, group_index) DO UPDATE SET chunk_ids, combined_text,
\* combined_tokens, status = 'pending'
insertChunkGroup(table, group) ==
    IF \E r \in table : /\ r.crawled_content_id = group.crawled_content_id
                        /\ r.group_index = group.group_index
    THEN {IF /\ r.crawled_content_id = group.crawled_content_id
             /\ r.group_index = group.group_index
          THEN [r EXCEPT !.chunk_ids = group.chunk_ids,
                         !.combined_text = group.combined_text,
                         !.combined_tokens = group.combined_tokens,
                         !.status = "pending"]
          ELSE r : r \in table}
    ELSE table \cup {[id |-> Cardinality(table) + 1,
                      crawled_content_id |-> group.crawled_content_id,
                      chunk_ids |-> group.chunk_ids,
                      group_index |-> group.group_index,
                      combined_text |-> group.combined_text,
                      combined_tokens |-> group.combined_tokens,
                      status |-> group.status]}

\* an instance of a worker class as the loops see it: its flag isRunning,
\* whether its PostgreSQL client has been closed (ended) and whether its
\* Redis client has been (redisEnded; the chunker has none and its
\* redisEnded stays FALSE); loopOf says which instance each loop belongs to
workerStarted(n) ==
    [isRunning  |-> [i \in 1..n |-> TRUE],
     ended      |-> [i \in 1..n |-> FALSE],
     redisEnded |-> [i \in 1..n |-> FALSE],
     loopOf     |-> [w \in 1..n |-> w]]

\* in place of loopContinues: the loop does not read the flag
loopContinuesAlways(worker, w) == TRUE

\* the condition of "while (this.isRunning)" as loop w reads it before a
\* batch (part_000 line 415, part_001 line 557)
loopContinues(worker, w) == worker.isRunning[worker.loopOf[w]]

\* the PostgreSQL client of the instance that runs loop w has been closed
clientEnded(worker, w) == worker.ended[worker.loopOf[w]]

\* the Redis client of the instance that runs loop w has been closed
redisClientEnded(worker, w) == worker.redisEnded[worker.loopOf[w]]

\* faults of the behaviour a statement uses up: none when it succeeds, and
\* none when it throws because its client is closed
statementFaults(ended, ok) == IF ok \/ ended THEN 0 ELSE 1

\* a statement sent to a client succeeds (ok) or throws: it throws when
\* the client has been closed, and otherwise as one of the errors of the
\* behaviour
statement(ended, ok) ==
    /\ ok => ~ended
    /\ statementFaults(ended, ok) <= faultsLeft
    /\ faultsLeft' = faultsLeft - statementFaults(ended, ok)

\* UPDATE <table> SET status = $2 WHERE id = $1
updateStatus(table, id, status) ==
    {IF r.id = id THEN [r EXCEPT !.status = status] ELSE r : r \in table}

\* the batch query without its WHERE clause
selectContentAnyStatus(table, batchSize) ==
    limit(orderBy(table, "id"), batchSize)

\* ContentChunkerWorker.processBatch: SELECT ... FROM crawled_content
\* WHERE status = 'pending' ORDER BY created_at ASC LIMIT batchSize
selectPendingContent(table, batchSize) ==
    limit(orderBy({r \in table : r.status = "pending"}, "id"), batchSize)

(***************************************************************************)
(* The crawler                                                             *)
(***************************************************************************)
\* the urls and the texts a crawl can deliver
Urls == {"u1", "u2"}

RawTexts ==
    {<<>>,
     <<"A", "b">>,
     <<"A", "b", ".", " ", "C", "d", ".", " ", "E", "f">>}

\* CrawlerDbWorker.processBatch, one iteration of its save loop; a failed
\* save returns null and leaves the store as it is.  crawled_at is the
\* number of the crawl.
Crawl ==
    \E url \in Urls, raw_text \in RawTexts :
        /\ crawlsLeft > 0
        /\ crawlsLeft' = crawlsLeft - 1
        /\ crawled_content' =
               saveCrawledContent(crawled_content, url, raw_text, crawlsLeft)
        /\ UNCHANGED <<content_chunks, chunk_groups, summarized_content,
                       partial_summaries, chunker, summarizer, faultsLeft>>
        /\ UNCHANGED <<chunkVars, lifeVars, queueVars>>

(***************************************************************************)
(* ContentChunkerWorker, one instance w.  A step is one store statement    *)
(* together with the local computation that follows it up to the next      *)
(* await.                                                                  *)
(***************************************************************************)
ChunkerBatchSize == 2

\* the waits of the loop of start (lines 421, 424 and 428), milliseconds
ChunkerIdleDelay == 10000
ChunkerBatchDelay == 2000
ChunkerErrorDelay == 15000

\* the locals of an instance outside processBatch.  lastRun is history:
\* for each content id, what the instance left when it last marked the
\* item chunked, as a set of one record (empty before that); written is
\* history: the status the current call of processContent has written;
\* found and threw are history: the number of rows the batch selected and
\* whether an error left processBatch
chunkerIdle ==
    [pc |-> "idle", batch |-> <<>>, content |-> NULL, textChunks |-> <<>>,
     i |-> 0, savedChunks |-> <<>>, chunkGroups |-> <<>>,
     savedGroupsCount |-> 0, result |-> NULL, written |-> "none",
     successCount |-> 0, delay |-> 0, found |-> 0, threw |-> FALSE,
     lastRun |-> [id \in 1..Cardinality(Urls) |-> {}]]

\* lines 418-429: processBatch has returned processedCount, or thrown, and
\* the loop waits
chunkerWaits(st, processedCount, threw) ==
    [chunkerIdle EXCEPT
        !.pc = "delay",
        !.delay = IF threw THEN ChunkerErrorDelay
                  ELSE IF processedCount = 0 THEN ChunkerIdleDelay
                  ELSE ChunkerBatchDelay,
        !.found = st.found, !.threw = threw, !.lastRun = st.lastRun]

\* a row without its status column
withoutStatus(r) == [f \in (DOMAIN r) \ {"status"} |-> r[f]]

\* history: the rows of a content item when it is marked chunked; repeated
\* says that the instance had marked the item chunked before, with the
\* text it has chunked now; complete says that no write of this run threw
chunkRun(st, chunkTable, groupTable) ==
    [raw_text |-> st.content.raw_text,
     chunks   |-> {r \in chunkTable : r.crawled_content_id = st.content.id},
     groups   |-> {withoutStatus(r) :
                      r \in {q \in groupTable : q.crawled_content_id = st.content.id}},
     repeated |-> \E run \in st.lastRun[st.content.id] :
                      run.raw_text = st.content.raw_text,
     complete |-> /\ Len(st.savedChunks) = Len(st.textChunks)
                  /\ st.savedGroupsCount = Len(st.chunkGroups)]

\* processContent has returned r for the current row (line 392)
chunkerReturned(st, r) ==
    [st EXCEPT !.pc = "returned", !.result = r, !.i = 0, !.chunkGroups = <<>>]

\* lines 416-418 and 358-376: the loop finds isRunning set and the batch is
\* selected, or the SELECT throws and its error leaves processBatch
ChunkerSelect ==
    \E w \in DOMAIN chunker :
        /\ chunker[w].pc = "idle"
        /\ loopContinues(chunkerWorker, w)
        /\ LET rows == selectPendingContent(crawled_content, ChunkerBatchSize)
           IN  \E ok \in BOOLEAN :
                   /\ statement(clientEnded(chunkerWorker, w), ok)
                   /\ ok => rows # <<>>
                   /\ chunker' = [chunker EXCEPT ![w] =
                          IF ~ok THEN chunkerWaits(chunker[w], 0, TRUE)
                          ELSE [chunkerIdle EXCEPT !.pc = "process", !.batch = rows,
                                                   !.found = Len(rows),
                                                   !.lastRun = chunker[w].lastRun]]
        /\ UNCHANGED <<crawled_content, content_chunks, chunk_groups,
                       summarized_content, partial_summaries, summarizer,
                       crawlsLeft>>
        /\ UNCHANGED <<chunkVars, lifeVars, queueVars>>

\* lines 416-421 and 373-375: the SELECT finds no pending row, processBatch
\* returns 0 and the loop waits.  The store and the loop are afterwards
\* as they were before the poll.
ChunkerPollEmpty ==
    \E w \in DOMAIN chunker :
        /\ chunker[w].pc = "idle"
        /\ loopContinues(chunkerWorker, w)
        /\ ~clientEnded(chunkerWorker, w)
        /\ selectPendingContent(crawled_content, ChunkerBatchSize) = <<>>
        /\ chunker' = [chunker EXCEPT ![w] = chunkerWaits(chunker[w], 0, FALSE)]
        /\ UNCHANGED <<crawled_content, content_chunks, chunk_groups,
                       summarized_content, partial_summaries, summarizer,
                       crawlsLeft, faultsLeft>>
        /\ UNCHANGED <<chunkVars, lifeVars, queueVars>>

\* lines 379-392 and 303-313: the next row of the batch; chunkText on its raw_text
ChunkerChunk ==
    \E w \in DOMAIN chunker :
        /\ chunker[w].pc = "process"
        /\ LET content    == Head(chunker[w].batch)
               textChunks == chunkText(content.raw_text, config)
               st         == [chunker[w] EXCEPT !.content = content,
                                                !.textChunks = textChunks]
           IN  chunker' = [chunker EXCEPT ![w] =
                   IF Len(textChunks) = 0
                   THEN chunkerReturned(st, FALSE)
                   ELSE [st EXCEPT !.pc = "saveChunks"]]
        /\ UNCHANGED <<crawled_content, content_chunks, chunk_groups,
                       summarized_content, partial_summaries, summarizer,
                       crawlsLeft, faultsLeft>>
        /\ UNCHANGED <<chunkVars, lifeVars, queueVars>>

\* lines 316-324, after the loop of saveChunks
afterSaveChunks(st) ==
    IF st.i < Len(st.textChunks) THEN st
    ELSE IF Len(st.savedChunks) = 0 THEN chunkerReturned(st, FALSE)
    ELSE [st EXCEPT !.pc = "saveGroups", !.i = 0,
                    !.chunkGroups = createChunkGroups(st.savedChunks, config)]

\* lines 220-256: one iteration of the loop of saveChunks; the statement
\* succeeds, or throws and the error is logged
ChunkerSaveChunk ==
    \E w \in DOMAIN chunker :
        /\ chunker[w].pc = "saveChunks"
        /\ LET st         == chunker[w]
               contentId  == st.content.id
               chunkTxt   == st.textChunks[st.i + 1]
               tokenCount == estimateTokenCount(chunkTxt)
               table      == insertChunk(content_chunks, contentId, st.i, chunkTxt, tokenCount)
           IN  \E ok \in BOOLEAN :
                   /\ statement(clientEnded(chunkerWorker, w), ok)
                   /\ content_chunks' = IF ok THEN table ELSE content_chunks
                   /\ chunker' = [chunker EXCEPT ![w] = afterSaveChunks(
                          [st EXCEPT !.i = st.i + 1,
                                     !.savedChunks =
                                         IF ok
                                         THEN Append(st.savedChunks,
                                                  [id |-> chunkRowId(table, contentId, st.i),
                                                   crawled_content_id |-> contentId,
                                                   chunk_index |-> st.i,
                                                   chunk_text |-> chunkTxt,
                                                   token_count |-> tokenCount])
                                         ELSE st.savedChunks])]
        /\ UNCHANGED <<crawled_content, chunk_groups, summarized_content,
                       partial_summaries, summarizer, crawlsLeft>>
        /\ UNCHANGED <<chunkVars, lifeVars, queueVars>>

\* lines 267-295: one iteration of the loop of saveChunkGroups
ChunkerSaveGroup ==
    \E w \in DOMAIN chunker :
        /\ chunker[w].pc = "saveGroups"
        /\ LET st    == chunker[w]
               group == st.chunkGroups[st.i + 1]
           IN  \E ok \in BOOLEAN :
                   /\ statement(clientEnded(chunkerWorker, w), ok)
                   /\ chunk_groups' = IF ok THEN insertChunkGroup(chunk_groups, group)
                                      ELSE chunk_groups
                   /\ chunker' = [chunker EXCEPT ![w] =
                          [st EXCEPT !.i = st.i + 1,
                                     !.savedGroupsCount = IF ok THEN @ + 1 ELSE @,
                                     !.pc = IF st.i + 1 < Len(st.chunkGroups)
                                            THEN "saveGroups" ELSE "markChunked"]]
        /\ UNCHANGED <<crawled_content, content_chunks, summarized_content,
                       partial_summaries, summarizer, crawlsLeft>>
        /\ UNCHANGED <<chunkVars, lifeVars, queueVars>>

\* lines 329-336: UPDATE crawled_content SET status = 'chunked'; when the
\* statement throws, control passes to the catch block
ChunkerMarkChunked ==
    \E w \in DOMAIN chunker :
        /\ chunker[w].pc = "markChunked"
        /\ \E ok \in BOOLEAN :
               /\ statement(clientEnded(chunkerWorker, w), ok)
               /\ crawled_content' =
                      IF ok THEN updateStatus(crawled_content, chunker[w].content.id, "chunked")
                      ELSE crawled_content
               /\ chunker' = [chunker EXCEPT ![w] =
                      IF ok
                      THEN chunkerReturned(
                               [@ EXCEPT !.written = "chunked",
                                          !.lastRun[@.content.id] =
                                    {chunkRun(chunker[w], content_chunks, chunk_groups)}],
                               TRUE)
                      ELSE [@ EXCEPT !.pc = "markFailed"]]
        /\ UNCHANGED <<content_chunks, chunk_groups, summarized_content,
                       partial_summaries, summarizer, crawlsLeft>>
        /\ UNCHANGED <<chunkVars, lifeVars, queueVars>>

\* lines 338-351: the catch block: UPDATE crawled_content SET status = 'failed'
ChunkerMarkFailed ==
    \E w \in DOMAIN chunker :
        /\ chunker[w].pc = "markFailed"
        /\ \E ok \in BOOLEAN :
               /\ statement(clientEnded(chunkerWorker, w), ok)
               /\ crawled_content' =
                      IF ok THEN updateStatus(crawled_content, chunker[w].content.id, "failed")
                      ELSE crawled_content
               /\ chunker' = [chunker EXCEPT ![w] = chunkerReturned(
                      [@ EXCEPT !.written = IF ok THEN "failed" ELSE "none"], FALSE)]
        /\ UNCHANGED <<content_chunks, chunk_groups, summarized_content,
                       partial_summaries, summarizer, crawlsLeft>>
        /\ UNCHANGED <<chunkVars, lifeVars, queueVars>>

\* lines 392-398: back in the loop of processBatch, which counts the
\* item if processContent returned true and returns successCount after
\* the last row
ChunkerContinue ==
    \E w \in DOMAIN chunker :
        /\ chunker[w].pc = "returned"
        /\ LET successCount == chunker[w].successCount
                                   + (IF chunker[w].result = TRUE THEN 1 ELSE 0)
           IN  chunker' = [chunker EXCEPT ![w] =
                   IF Len(chunker[w].batch) > 1
                   THEN [chunkerIdle EXCEPT !.pc = "process",
                                            !.batch = Tail(chunker[w].batch),
                                            !.successCount = successCount,
                                            !.found = chunker[w].found,
                                            !.lastRun = chunker[w].lastRun]
                   ELSE chunkerWaits(chunker[w], successCount, FALSE)]
        /\ UNCHANGED <<crawled_content, content_chunks, chunk_groups,
                       summarized_content, partial_summaries, summarizer,
                       crawlsLeft, faultsLeft>>
        /\ UNCHANGED <<chunkVars, lifeVars, queueVars>>

\* lines 421, 424 and 428: the wait is over and the loop is at its test
ChunkerWake ==
    \E w \in DOMAIN chunker :
        /\ chunker[w].pc = "delay"
        /\ chunker' = [chunker EXCEPT ![w] =
               [chunkerIdle EXCEPT !.lastRun = chunker[w].lastRun]]
        /\ UNCHANGED <<crawled_content, content_chunks, chunk_groups,
                       summarized_content, partial_summaries, summarizer,
                       crawlsLeft, faultsLeft>>
        /\ UNCHANGED <<chunkVars, lifeVars, queueVars>>

(***************************************************************************)
(* ChunkGroupSummarizerWorker: the staging lists of partial summaries      *)
(***************************************************************************)
\* Array.prototype.reverse
reverse(xs) == [k \in 1..Len(xs) |-> xs[Len(xs) + 1 - k]]

\* String.prototype.substring(0, n)
substring(s, n) == SubSeq(s, 1, IF n < Len(s) THEN n ELSE Len(s))

\* redis LPUSH key value
lPush(lists, key, value) == [lists EXCEPT ![key] = <<value>> \o @]

\* redis LRANGE key 0 -1
lRange(lists, key) == lists[key]

\* in place of del: the key is not removed
delKeepsList(lists, key) == lists

\* redis DEL key
del(lists, key) == [lists EXCEPT ![key] = <<>>]

\* getPartialSummaries (lines 115-130): the list, oldest push first
getPartialSummaries(lists, crawledContentId) == reverse(lRange(lists, crawledContentId))

(***************************************************************************)
(* summarizeChunkGroup and createFinalSummary.  The text a completion      *)
(* returns is an uninterpreted term over what the prompt holds.            *)
(***************************************************************************)
PromptChars == 12000
PartialOriginalChars == 10000
FinalOriginalChars == 15000

\* lines 153-163: part and parts are what the call logs as "Part k/n"; the
\* prompts say "part k of n parts" of the article for several groups and
\* "the complete article" (complete) otherwise
contextInfo(groupIndex, totalGroups) ==
    [complete |-> ~(totalGroups > 1), part |-> groupIndex + 1, parts |-> totalGroups]

\* what the chat completion of summarizeChunkGroup yields (lines 190-213):
\* "object": JSON text of an object with the fields asked for; "text": text
\* JSON.parse rejects; "value": JSON text of a value without those fields
\* (a number, a string, an array, an object that lacks them); "null": the
\* JSON text null, whose fields cannot be read; "none": the request throws
\* or the content of the message is empty
Responses == {"object", "text", "value", "null", "none"}

\* summarizeChunkGroup returns a summary and not null (lines 236-239)
returnsSummary(response) == response \in {"object", "text", "value"}

\* lines 203-227: aiResponse and the defaults of the fields read from it
aiResponse(response, contentType) ==
    CASE response = "object" ->
             [text       |-> "aiResponse.summary",
              key_points |-> <<"aiResponse.keyPoints">>,
              category   |-> "aiResponse.category",
              sentiment  |-> "aiResponse.sentiment"]
      [] response = "text" ->
             [text       |-> "responseContent.substring(0, 500)",
              key_points |-> <<"Content analysis available">>,
              category   |-> IF contentType = "code" THEN "Programming" ELSE "General",
              sentiment  |-> "neutral"]
      [] OTHER ->
             [text       |-> "Summary not available",
              key_points |-> <<>>,
              category   |-> "General",
              sentiment  |-> "neutral"]

\* line 174: the part of the group's text the user prompt holds
promptText(group) == substring(group.combined_text, PromptChars)

\* lines 144-235 when a summary is returned; the field summary stands for
\* the columns filled from the response (summary, key_points, category,
\* sentiment) as a term over the prompt
summarizeChunkGroup(group, contentType, groupIndex, totalGroups, response) ==
    [url                |-> <<>>,
     original_text      |-> substring(group.combined_text, PartialOriginalChars),
     summary            |-> [op |-> "summarize",
                             content |-> promptText(group),
                             context |-> contextInfo(groupIndex, totalGroups)]
                            @@ aiResponse(response, contentType),
     crawled_at         |-> 0,
     crawled_content_id |-> NULL,
     chunk_group_id     |-> group.id,
     is_partial_summary |-> totalGroups > 1]

\* processArticle lines 418-421: the caller fills in the article's fields
partialOf(contentData, group, response) ==
    [summarizeChunkGroup(group, "article", group.group_index,
                         Len(contentData.groups), response)
        EXCEPT !.url = contentData.url,
               !.crawled_content_id = contentData.id,
               !.crawled_at = contentData.crawled_at]

\* lines 246-342, the merge completion (if one is made) succeeded
createFinalSummary(partialSummaries, contentData) ==
    IF Len(partialSummaries) = 1
    THEN [partialSummaries[1] EXCEPT !.is_partial_summary = FALSE]
    ELSE [url                |-> contentData.url,
          original_text      |-> substring(
                                     join([k \in 1..Len(partialSummaries) |->
                                               partialSummaries[k].original_text],
                                          <<"\n", "\n">>),
                                     FinalOriginalChars),
          summary            |-> [op |-> "merge",
                                  partials |-> [k \in 1..Len(partialSummaries) |->
                                                    partialSummaries[k].summary]],
          crawled_at         |-> contentData.crawled_at,
          crawled_content_id |-> contentData.id,
          chunk_group_id     |-> NULL,
          is_partial_summary |-> FALSE]

\* saveSummary (lines 353-390): INSERT INTO summarized_content ...
\* ON CONFLICT (url) DO UPDATE SET summary, crawled_content_id,
\* is_partial_summary (and columns the model does not carry)
saveSummary(table, summary) ==
    IF \E r \in table : r.url = summary.url
    THEN {IF r.url = summary.url
          THEN [r EXCEPT !.summary = summary.summary,
                         !.crawled_content_id = summary.crawled_content_id,
                         !.is_partial_summary = summary.is_partial_summary]
          ELSE r : r \in table}
    ELSE table \cup {[id |-> Cardinality(table) + 1] @@ summary}

\* processBatch lines 488-498: the articles that have a pending group
selectPendingArticles(contents, groups, batchSize) ==
    limit(orderBy({r \in contents :
                       \E g \in groups : /\ g.crawled_content_id = r.id
                                         /\ g.status = "pending"}, "id"),
          batchSize)

\* the group query reading every group of the article, whatever its status
selectPendingGroupsAnyStatus(groups, crawledContentId) ==
    orderBy({g \in groups : g.crawled_content_id = crawledContentId}, "group_index")

\* processBatch lines 508-513: the pending groups of one article
selectPendingGroups(groups, crawledContentId) ==
    orderBy({g \in groups : /\ g.crawled_content_id = crawledContentId
                            /\ g.status = "pending"}, "group_index")

(***************************************************************************)
(* ChunkGroupSummarizerWorker, one instance w                              *)
(***************************************************************************)
SummarizerBatchSize == 2

\* the locals of an instance outside processBatch; produced, error,
\* response and results are history: the partial summaries this call of
\* processArticle has made so far, what made it return false ("statement":
\* a statement threw, "merge": the merge completion failed), what the last
\* completion for a group yielded, and how the calls for the earlier
\* articles of the batch ended
summarizerIdle ==
    [pc |-> "idle", batch |-> <<>>, contentData |-> NULL, g |-> 0,
     successfulSummaries |-> 0, partialSummaries |-> <<>>,
     finalSummary |-> NULL, result |-> NULL, produced |-> <<>>,
     error |-> "none", response |-> NULL, results |-> <<>>,
     successCount |-> 0, delay |-> 0, found |-> 0, threw |-> FALSE]

\* the waits of the loop of start (lines 563, 566 and 570), milliseconds
SummarizerIdleDelay == 15000
SummarizerBatchDelay == 5000
SummarizerErrorDelay == 30000

\* lines 560-571: processBatch has returned processedCount, or thrown, and
\* the loop waits; found and threw are history: the number of rows the
\* batch selected and whether an error left processBatch
summarizerWaits(st, processedCount, threw) ==
    [summarizerIdle EXCEPT
        !.pc = "delay",
        !.delay = IF threw THEN SummarizerErrorDelay
                  ELSE IF processedCount = 0 THEN SummarizerIdleDelay
                  ELSE SummarizerBatchDelay,
        !.found = st.found, !.threw = threw]

\* processArticle has returned r for the current article (line 532)
summarizerReturned(st, r) ==
    [st EXCEPT !.pc = "returned", !.result = r]

\* lines 442-449: the end of one iteration of the loop over the groups
nextGroup(st) ==
    IF st.g + 1 < Len(st.contentData.groups)
    THEN [st EXCEPT !.pc = "summarize", !.g = st.g + 1]
    ELSE IF st.successfulSummaries = 0
         THEN summarizerReturned([st EXCEPT !.g = st.g + 1], FALSE)
         ELSE [st EXCEPT !.pc = "final", !.g = st.g + 1]

\* in place of afterGroupFailed: the failure of a group ends processArticle
afterGroupFailedReturns(st) == summarizerReturned(st, FALSE)

\* lines 433-444: the group has been marked failed and the loop goes on
afterGroupFailed(st) == nextGroup(st)

\* lines 558-560 and 483-502: the loop finds isRunning set and the batch is
\* selected, or the SELECT throws and its error leaves processBatch
SummarizerSelect ==
    \E w \in DOMAIN summarizer :
        /\ summarizer[w].pc = "idle"
        /\ loopContinues(summarizerWorker, w)
        /\ LET rows == selectPendingArticles(crawled_content, chunk_groups, SummarizerBatchSize)
           IN  \E ok \in BOOLEAN :
                   /\ statement(clientEnded(summarizerWorker, w), ok)
                   /\ ok => rows # <<>>
                   /\ summarizer' = [summarizer EXCEPT ![w] =
                          IF ~ok THEN summarizerWaits(summarizer[w], 0, TRUE)
                          ELSE [summarizerIdle EXCEPT !.pc = "load", !.batch = rows,
                                                      !.found = Len(rows)]]
        /\ UNCHANGED <<crawled_content, content_chunks, chunk_groups,
                       summarized_content, partial_summaries, chunker,
                       crawlsLeft>>
        /\ UNCHANGED <<chunkVars, lifeVars, queueVars>>

\* lines 558-563 and 500-502: the SELECT finds no article with a pending
\* group, processBatch returns 0 and the loop waits.  The store and the
\* loop are afterwards as they were before the poll.
SummarizerPollEmpty ==
    \E w \in DOMAIN summarizer :
        /\ summarizer[w].pc = "idle"
        /\ loopContinues(summarizerWorker, w)
        /\ ~clientEnded(summarizerWorker, w)
        /\ selectPendingArticles(crawled_content, chunk_groups, SummarizerBatchSize) = <<>>
        /\ summarizer' = [summarizer EXCEPT ![w] = summarizerWaits(summarizer[w], 0, FALSE)]
        /\ UNCHANGED <<crawled_content, content_chunks, chunk_groups,
                       summarized_content, partial_summaries, chunker,
                       crawlsLeft, faultsLeft>>
        /\ UNCHANGED <<chunkVars, lifeVars, queueVars>>

\* lines 506-530 and 402-409: the pending groups of the next article.  A
\* SELECT that throws does so out of processBatch (lines 541-544) and the
\* rest of the batch is dropped.
SummarizerLoadGroups ==
    \E w \in DOMAIN summarizer :
        /\ summarizer[w].pc = "load"
        /\ LET row == Head(summarizer[w].batch)
               contentData == [id |-> row.id, url |-> row.url,
                               crawled_at |-> row.crawled_at,
                               groups |-> selectPendingGroups(chunk_groups, row.id)]
               st == [summarizer[w] EXCEPT !.contentData = contentData]
           IN  \E ok \in BOOLEAN :
                   /\ statement(clientEnded(summarizerWorker, w), ok)
                   /\ summarizer' = [summarizer EXCEPT ![w] =
                          IF ~ok
                          THEN summarizerWaits(summarizer[w], 0, TRUE)
                          ELSE IF contentData.groups = <<>>
                          THEN summarizerReturned(st, FALSE)
                          ELSE [st EXCEPT !.pc = "summarize"]]
        /\ UNCHANGED <<crawled_content, content_chunks, chunk_groups,
                       summarized_content, partial_summaries, chunker,
                       crawlsLeft>>
        /\ UNCHANGED <<chunkVars, lifeVars, queueVars>>

\* lines 410-424 and 433-438: the completion for one group and the store
\* statement that follows it: LPUSH of the partial summary if there is
\* one, UPDATE ... 'failed' if there is none.  A statement that throws
\* ends processArticle in its catch block.
SummarizerSummarize ==
    \E w \in DOMAIN summarizer :
        /\ summarizer[w].pc = "summarize"
        /\ LET st    == summarizer[w]
               group == st.contentData.groups[st.g + 1]
           IN  \E response \in Responses, ok \in BOOLEAN :
                   LET completed == returnsSummary(response)
                       ended  == IF completed
                                 THEN redisClientEnded(summarizerWorker, w)
                                 ELSE clientEnded(summarizerWorker, w)
                       faults == (IF response = "object" THEN 0 ELSE 1)
                                 + statementFaults(ended, ok)
                       got    == [st EXCEPT !.response = response]
                   IN  /\ ok => ~ended
                       /\ faults <= faultsLeft
                       /\ faultsLeft' = faultsLeft - faults
                       /\ partial_summaries' =
                              IF completed /\ ok
                              THEN lPush(partial_summaries, st.contentData.id,
                                         partialOf(st.contentData, group, response))
                              ELSE partial_summaries
                       /\ chunk_groups' =
                              IF ~completed /\ ok
                              THEN updateStatus(chunk_groups, group.id, "failed")
                              ELSE chunk_groups
                       /\ summarizer' = [summarizer EXCEPT ![w] =
                              IF ~ok THEN summarizerReturned(
                                              [got EXCEPT !.error = "statement"], FALSE)
                              ELSE IF completed
                                   THEN [got EXCEPT !.pc = "markGroup",
                                                    !.successfulSummaries = @ + 1,
                                                    !.produced = Append(@,
                                                        partialOf(st.contentData, group,
                                                                  response))]
                                   ELSE afterGroupFailed(got)]
        /\ UNCHANGED <<crawled_content, content_chunks, summarized_content,
                       chunker, crawlsLeft>>
        /\ UNCHANGED <<chunkVars, lifeVars, queueVars>>

\* lines 427-432: UPDATE chunk_groups SET status = 'summarized'
SummarizerMarkGroup ==
    \E w \in DOMAIN summarizer :
        /\ summarizer[w].pc = "markGroup"
        /\ LET st    == summarizer[w]
               group == st.contentData.groups[st.g + 1]
           IN  \E ok \in BOOLEAN :
                   /\ statement(clientEnded(summarizerWorker, w), ok)
                   /\ chunk_groups' =
                          IF ok THEN updateStatus(chunk_groups, group.id, "summarized")
                          ELSE chunk_groups
                   /\ summarizer' = [summarizer EXCEPT ![w] =
                          IF ok THEN nextGroup(st)
                          ELSE summarizerReturned([st EXCEPT !.error = "statement"], FALSE)]
        /\ UNCHANGED <<crawled_content, content_chunks, summarized_content,
                       partial_summaries, chunker, crawlsLeft>>
        /\ UNCHANGED <<chunkVars, lifeVars, queueVars>>

\* lines 453-456 and 467-472: LRANGE of the staging list, which may throw,
\* then createFinalSummary, which promotes a single partial summary and
\* otherwise makes the merge completion; when that fails (merged is
\* FALSE) createFinalSummary returns null and processArticle false
SummarizerFinal ==
    \E w \in DOMAIN summarizer :
        /\ summarizer[w].pc = "final"
        /\ LET st == summarizer[w]
               partialSummaries == getPartialSummaries(partial_summaries, st.contentData.id)
               ended == redisClientEnded(summarizerWorker, w)
           IN  \E ok \in BOOLEAN, merged \in BOOLEAN :
                   LET faults == statementFaults(ended, ok) + (IF merged THEN 0 ELSE 1)
                   IN  /\ ok => ~ended
                       /\ ~merged => (ok /\ Len(partialSummaries) # 1)
                       /\ faults <= faultsLeft
                       /\ faultsLeft' = faultsLeft - faults
                       /\ summarizer' = [summarizer EXCEPT ![w] =
                              IF ~ok
                              THEN summarizerReturned([st EXCEPT !.error = "statement"], FALSE)
                              ELSE IF ~merged
                              THEN summarizerReturned(
                                       [st EXCEPT !.partialSummaries = partialSummaries,
                                                  !.error = "merge"], FALSE)
                              ELSE [st EXCEPT !.pc = "save",
                                              !.partialSummaries = partialSummaries,
                                              !.finalSummary =
                                                  createFinalSummary(partialSummaries, st.contentData)]]
        /\ UNCHANGED <<crawled_content, content_chunks, chunk_groups,
                       summarized_content, partial_summaries, chunker, crawlsLeft>>
        /\ UNCHANGED <<chunkVars, lifeVars, queueVars>>

\* lines 458-459 and 464-466: saveSummary
SummarizerSave ==
    \E w \in DOMAIN summarizer :
        /\ summarizer[w].pc = "save"
        /\ LET st == summarizer[w]
           IN  \E ok \in BOOLEAN :
                   /\ statement(clientEnded(summarizerWorker, w), ok)
                   /\ summarized_content' =
                          IF ok THEN saveSummary(summarized_content, st.finalSummary)
                          ELSE summarized_content
                   /\ summarizer' = [summarizer EXCEPT ![w] =
                          IF ok THEN [st EXCEPT !.pc = "cleanup"]
                          ELSE summarizerReturned([st EXCEPT !.error = "statement"], FALSE)]
        /\ UNCHANGED <<crawled_content, content_chunks, chunk_groups,
                       partial_summaries, chunker, crawlsLeft>>
        /\ UNCHANGED <<chunkVars, lifeVars, queueVars>>

\* lines 460-463: cleanupPartialSummaries
SummarizerCleanup ==
    \E w \in DOMAIN summarizer :
        /\ summarizer[w].pc = "cleanup"
        /\ LET st == summarizer[w]
           IN  \E ok \in BOOLEAN :
                   /\ statement(redisClientEnded(summarizerWorker, w), ok)
                   /\ partial_summaries' =
                          IF ok THEN del(partial_summaries, st.contentData.id)
                          ELSE partial_summaries
                   /\ summarizer' = [summarizer EXCEPT ![w] = summarizerReturned(
                          [st EXCEPT !.error = IF ok THEN "none" ELSE "statement"], ok)]
        /\ UNCHANGED <<crawled_content, content_chunks, chunk_groups,
                       summarized_content, chunker, crawlsLeft>>
        /\ UNCHANGED <<chunkVars, lifeVars, queueVars>>

\* lines 532-540: back in the loop of processBatch, which counts the
\* article if processArticle returned true and returns successCount after
\* the last row
SummarizerContinue ==
    \E w \in DOMAIN summarizer :
        /\ summarizer[w].pc = "returned"
        /\ LET successCount == summarizer[w].successCount
                                   + (IF summarizer[w].result = TRUE THEN 1 ELSE 0)
           IN  summarizer' = [summarizer EXCEPT ![w] =
                   IF Len(summarizer[w].batch) > 1
                   THEN [summarizerIdle EXCEPT
                            !.pc = "load", !.batch = Tail(summarizer[w].batch),
                            !.successCount = successCount,
                            !.found = summarizer[w].found,
                            !.results = Append(summarizer[w].results,
                                               [id     |-> summarizer[w].contentData.id,
                                                result |-> summarizer[w].result,
                                                error  |-> summarizer[w].error])]
                   ELSE summarizerWaits(summarizer[w], successCount, FALSE)]
        /\ UNCHANGED <<crawled_content, content_chunks, chunk_groups,
                       summarized_content, partial_summaries, chunker,
                       crawlsLeft, faultsLeft>>
        /\ UNCHANGED <<chunkVars, lifeVars, queueVars>>

\* lines 563, 566 and 570: the wait is over and the loop is at its test
SummarizerWake ==
    \E w \in DOMAIN summarizer :
        /\ summarizer[w].pc = "delay"
        /\ summarizer' = [summarizer EXCEPT ![w] = summarizerIdle]
        /\ UNCHANGED <<crawled_content, content_chunks, chunk_groups,
                       summarized_content, partial_summaries, chunker,
                       crawlsLeft, faultsLeft>>
        /\ UNCHANGED <<chunkVars, lifeVars, queueVars>>

(***************************************************************************)
(* start, stop and cleanup of the two worker classes.  A call of start on  *)
(* an instance whose flag is set returns at once, and so does nothing.     *)
(***************************************************************************)
MaxLoops == 2

\* start (part_000 lines 406-413, part_001 lines 548-555): the flag is set
\* and the caller enters the loop
workerStart(worker, i, w) ==
    [worker EXCEPT !.isRunning[i] = TRUE,
                   !.loopOf = [k \in 1..w |-> IF k = w THEN i ELSE worker.loopOf[k]]]

\* stop (part_000 lines 435-438, part_001 lines 577-580)
workerStop(worker, i) == [worker EXCEPT !.isRunning[i] = FALSE]

\* cleanup (part_000 lines 467-470 and 48-54, part_001 lines 614-617 and
\* 81-83): stop, then disconnect closes the PostgreSQL client
workerCleanup(worker, i) == [workerStop(worker, i) EXCEPT !.ended[i] = TRUE]

StartChunker ==
    \E i \in DOMAIN chunkerWorker.isRunning :
        /\ callsLeft > 0
        /\ ~chunkerWorker.isRunning[i]
        /\ Len(chunker) < MaxLoops
        /\ chunkerWorker' = workerStart(chunkerWorker, i, Len(chunker) + 1)
        /\ chunker' = Append(chunker, chunkerIdle)
        /\ callsLeft' = callsLeft - 1
        /\ UNCHANGED <<crawled_content, content_chunks, chunk_groups,
                       summarized_content, partial_summaries, summarizer,
                       summarizerWorker, crawlsLeft, faultsLeft>>
        /\ UNCHANGED <<chunkVars, queueVars>>

StopChunker ==
    \E i \in DOMAIN chunkerWorker.isRunning :
        /\ callsLeft > 0
        /\ chunkerWorker.isRunning[i]
        /\ chunkerWorker' = workerStop(chunkerWorker, i)
        /\ callsLeft' = callsLeft - 1
        /\ UNCHANGED <<crawled_content, content_chunks, chunk_groups,
                       summarized_content, partial_summaries, chunker, summarizer,
                       summarizerWorker, crawlsLeft, faultsLeft>>
        /\ UNCHANGED <<chunkVars, queueVars>>

CleanupChunker ==
    \E i \in DOMAIN chunkerWorker.isRunning :
        /\ callsLeft > 0
        /\ ~chunkerWorker.ended[i]
        /\ chunkerWorker' = workerCleanup(chunkerWorker, i)
        /\ callsLeft' = callsLeft - 1
        /\ UNCHANGED <<crawled_content, content_chunks, chunk_groups,
                       summarized_content, partial_summaries, chunker, summarizer,
                       summarizerWorker, crawlsLeft, faultsLeft>>
        /\ UNCHANGED <<chunkVars, queueVars>>

\* part_000 lines 416 and 432: the loop finds the flag cleared and ends
ExitChunker ==
    \E w \in DOMAIN chunker :
        /\ chunker[w].pc = "idle"
        /\ ~loopContinues(chunkerWorker, w)
        /\ chunker' = [chunker EXCEPT ![w].pc = "stopped"]
        /\ UNCHANGED <<crawled_content, content_chunks, chunk_groups,
                       summarized_content, partial_summaries, summarizer,
                       crawlsLeft, faultsLeft>>
        /\ UNCHANGED <<chunkVars, lifeVars, queueVars>>

StartSummarizer ==
    \E i \in DOMAIN summarizerWorker.isRunning :
        /\ callsLeft > 0
        /\ ~summarizerWorker.isRunning[i]
        /\ Len(summarizer) < MaxLoops
        /\ summarizerWorker' = workerStart(summarizerWorker, i, Len(summarizer) + 1)
        /\ summarizer' = Append(summarizer, summarizerIdle)
        /\ callsLeft' = callsLeft - 1
        /\ UNCHANGED <<crawled_content, content_chunks, chunk_groups,
                       summarized_content, partial_summaries, chunker,
                       chunkerWorker, crawlsLeft, faultsLeft>>
        /\ UNCHANGED <<chunkVars, queueVars>>

StopSummarizer ==
    \E i \in DOMAIN summarizerWorker.isRunning :
        /\ callsLeft > 0
        /\ summarizerWorker.isRunning[i]
        /\ summarizerWorker' = workerStop(summarizerWorker, i)
        /\ callsLeft' = callsLeft - 1
        /\ UNCHANGED <<crawled_content, content_chunks, chunk_groups,
                       summarized_content, partial_summaries, chunker, summarizer,
                       chunkerWorker, crawlsLeft, faultsLeft>>
        /\ UNCHANGED <<chunkVars, queueVars>>

CleanupSummarizer ==
    \E i \in DOMAIN summarizerWorker.isRunning :
        /\ callsLeft > 0
        /\ ~summarizerWorker.ended[i]
        /\ summarizerWorker' = workerCleanup(summarizerWorker, i)
        /\ callsLeft' = callsLeft - 1
        /\ UNCHANGED <<crawled_content, content_chunks, chunk_groups,
                       summarized_content, partial_summaries, chunker, summarizer,
                       chunkerWorker, crawlsLeft, faultsLeft>>
        /\ UNCHANGED <<chunkVars, queueVars>>

\* part_001 line 84: cleanup has awaited pgClient.end() and disconnect
\* goes on to close the Redis client
DisconnectRedis ==
    \E i \in DOMAIN summarizerWorker.isRunning :
        /\ summarizerWorker.ended[i]
        /\ ~summarizerWorker.redisEnded[i]
        /\ summarizerWorker' = [summarizerWorker EXCEPT !.redisEnded[i] = TRUE]
        /\ UNCHANGED <<crawled_content, content_chunks, chunk_groups,
                       summarized_content, partial_summaries, chunker, summarizer,
                       chunkerWorker, crawlsLeft, faultsLeft, callsLeft>>
        /\ UNCHANGED <<chunkVars, queueVars>>

\* part_001 lines 558 and 574: the loop finds the flag cleared and ends
ExitSummarizer ==
    \E w \in DOMAIN summarizer :
        /\ summarizer[w].pc = "idle"
        /\ ~loopContinues(summarizerWorker, w)
        /\ summarizer' = [summarizer EXCEPT ![w].pc = "stopped"]
        /\ UNCHANGED <<crawled_content, content_chunks, chunk_groups,
                       summarized_content, partial_summaries, chunker,
                       crawlsLeft, faultsLeft>>
        /\ UNCHANGED <<chunkVars, lifeVars, queueVars>>

(***************************************************************************)
(* The texts and configurations the packer is run on                       *)
(***************************************************************************)
MaxPieces == 4

Pieces ==
    {<<"a", "b">>, <<"C", "d">>, <<".", " ">>, <<"\n", "\n">>, <<"\n">>,
     <<"#", " ">>, Fence, <<" ">>, <<"x">>}

RECURSIVE Flatten(_)
Flatten(ps) == IF ps = <<>> THEN <<>> ELSE Head(ps) \o Flatten(Tail(ps))

Texts ==
    UNION {{Flatten(ps) : ps \in [1..n -> Pieces]} : n \in 0..MaxPieces}

ChunkingConfig(maxT, minT, ovT, perGroup, maxPerGroup) ==
    [maxTokensPerChunk |-> maxT, minTokensPerChunk |-> minT,
     overlapTokens |-> ovT, chunksPerGroup |-> perGroup,
     maxChunksPerGroup |-> maxPerGroup,
     maxCharsPerChunk |-> maxT * 4, minCharsPerChunk |-> minT * 4,
     overlapChars |-> ovT * 4]

\* DEFAULT_CHUNKING_CONFIG scaled down (1200/300/100 tokens are out of
\* reach of bounded texts); the constructor takes any ChunkingConfig
Configs ==
    {ChunkingConfig(1, 1, 0, 2, 3), ChunkingConfig(2, 1, 1, 2, 3),
     ChunkingConfig(2, 2, 1, 2, 3)}

(***************************************************************************)
(* The pipeline: the crawler, the chunker instances and the summarizer     *)
(* instances over one store                                                *)
(***************************************************************************)
\* crawls and failing statements or completions in one behaviour
MaxCrawls == 2
MaxFaults == 1

\* the configuration the chunker instances are constructed with
PipelineConfig == ChunkingConfig(1, 1, 0, 2, 3)

\* the store before any crawl; no instance is constructed
PipeEmpty ==
    /\ crawled_content = {}
    /\ content_chunks = {}
    /\ chunk_groups = {}
    /\ summarized_content = {}
    /\ partial_summaries = [id \in 1..Cardinality(Urls) |-> <<>>]

(***************************************************************************)
(* A Redis work queue consumed in batches                                  *)
(***************************************************************************)
\* this.batchSize of a consuming worker (10, 5 and 3 in the workers),
\* scaled down
QueueBatchSize == 2
\* entries the producers push
MaxEntries == 4
\* workers consuming the same list
Consumers == 2

\* redis LRANGE key start stop on one list: both ends inclusive, counted
\* from 0, a negative stop counted from the tail
lRangeList(list, start, stop) ==
    LET last == IF stop < 0 THEN Len(list) + stop
                ELSE IF stop < Len(list) - 1 THEN stop ELSE Len(list) - 1
    IN  IF start > last THEN <<>> ELSE SubSeq(list, start + 1, last + 1)

\* redis LTRIM key start stop: the list keeps exactly that range
lTrimList(list, start, stop) == lRangeList(list, start, stop)

consumerIdle == [pc |-> "idle", batch |-> <<>>]

\* no entry was pushed; no worker consumes
QueueIdle ==
    /\ queue = <<>>
    /\ consumer = <<>>
    /\ returned = {}
    /\ pushed = 0

\* redis.call('RPUSH', ...): a producer appends one new entry at the tail
QueuePush ==
    /\ pushed < MaxEntries
    /\ queue' = Append(queue, pushed + 1)
    /\ pushed' = pushed + 1
    /\ UNCHANGED <<chunkVars, stageVars, consumer, returned>>

\* processBatch up to its first await result: lRange(key, 0, batchSize - 1);
\* an empty batch returns 0 and leaves everything as it was
QueueRead ==
    \E w \in DOMAIN consumer :
        LET batch == lRangeList(queue, 0, QueueBatchSize - 1) IN
        /\ consumer[w].pc = "idle"
        /\ batch # <<>>
        /\ consumer' = [consumer EXCEPT ![w] = [pc |-> "trim", batch |-> batch]]
        /\ returned' = returned \cup {batch[i] : i \in DOMAIN batch}
        /\ UNCHANGED <<chunkVars, stageVars, queue, pushed>>

\* the rest of processBatch: lTrim(key, batch.length, -1), then the batch
\* is processed, which touches no entry of this list
QueueTrim ==
    \E w \in DOMAIN consumer :
        /\ consumer[w].pc = "trim"
        /\ queue' = lTrimList(queue, Len(consumer[w].batch), -1)
        /\ consumer' = [consumer EXCEPT ![w] = consumerIdle]
        /\ UNCHANGED <<chunkVars, stageVars, returned, pushed>>

\* no chunkText call is singled out
PackerIdle ==
    /\ text = <<>>
    /\ boundaries = <<>>
    /\ bpos = 0
    /\ chunks = <<>>
    /\ currentChunk = <<>>
    /\ currentTokens = 0
    /\ lastBoundary = 0
    /\ seeds = <<>>
    /\ curSeed = <<>>
    /\ fidx = 0
    /\ cpc = "done"

ChunkInit ==
    /\ text \in Texts
    /\ config \in Configs
    /\ boundaries = <<>>
    /\ bpos = 0
    /\ chunks = <<>>
    /\ currentChunk = <<>>
    /\ currentTokens = 0
    /\ lastBoundary = 0
    /\ seeds = <<>>
    /\ curSeed = <<>>
    /\ fidx = 0
    /\ cpc = "start"
    /\ PipeEmpty
    /\ QueueIdle
    /\ chunker = <<>>
    /\ summarizer = <<>>
    /\ chunkerWorker = workerStarted(0)
    /\ summarizerWorker = workerStarted(0)
    /\ crawlsLeft = 0
    /\ faultsLeft = 0
    /\ callsLeft = 0

ChunkNext ==
    \/ ChunkTextBegin
    \/ PackAppend
    \/ PackFinalize
    \/ PackForce
    \/ ChunkTextReturn
    \/ FallbackBegin
    \/ FallbackStep
    \/ FallbackReturn

ChunkSpec == ChunkInit /\ [][ChunkNext]_vars

\* one chunker and one summarizer
Init ==
    /\ PackerIdle
    /\ QueueIdle
    /\ config = PipelineConfig
    /\ PipeEmpty
    /\ chunker = <<chunkerIdle>>
    /\ summarizer = <<summarizerIdle>>
    /\ chunkerWorker = workerStarted(1)
    /\ summarizerWorker = workerStarted(1)
    /\ crawlsLeft = MaxCrawls
    /\ faultsLeft = MaxFaults
    /\ callsLeft = 0

\* one chunker and two summarizers; no statement or completion fails
DupCrawls == 1
DupFaults == 0

DupInit ==
    /\ PackerIdle
    /\ QueueIdle
    /\ config = PipelineConfig
    /\ PipeEmpty
    /\ chunker = <<chunkerIdle>>
    /\ summarizer = <<summarizerIdle, summarizerIdle>>
    /\ chunkerWorker = workerStarted(1)
    /\ summarizerWorker = workerStarted(2)
    /\ crawlsLeft = DupCrawls
    /\ faultsLeft = DupFaults
    /\ callsLeft = 0

\* the steps of the crawler and of the loops.  A poll that finds nothing
\* leaves every variable of the store and of the loop as it was once its
\* wait is over; it is a step of LoopNext only.
Next ==
    \/ Crawl
    \/ ChunkerSelect
    \/ ChunkerChunk
    \/ ChunkerSaveChunk
    \/ ChunkerSaveGroup
    \/ ChunkerMarkChunked
    \/ ChunkerMarkFailed
    \/ ChunkerContinue
    \/ ChunkerWake
    \/ SummarizerSelect
    \/ SummarizerLoadGroups
    \/ SummarizerSummarize
    \/ SummarizerMarkGroup
    \/ SummarizerFinal
    \/ SummarizerSave
    \/ SummarizerCleanup
    \/ SummarizerContinue
    \/ SummarizerWake

Spec == Init /\ [][Next]_vars

\* the steps of Next that can be taken when no statement fails: the catch
\* block of processContent (ChunkerMarkFailed) is not entered
DupNext ==
    \/ Crawl
    \/ ChunkerSelect
    \/ ChunkerChunk
    \/ ChunkerSaveChunk
    \/ ChunkerSaveGroup
    \/ ChunkerMarkChunked
    \/ ChunkerContinue
    \/ ChunkerWake
    \/ SummarizerSelect
    \/ SummarizerLoadGroups
    \/ SummarizerSummarize
    \/ SummarizerMarkGroup
    \/ SummarizerFinal
    \/ SummarizerSave
    \/ SummarizerCleanup
    \/ SummarizerContinue
    \/ SummarizerWake

DupSpec == DupInit /\ [][DupNext]_vars

\* one chunker and one summarizer, one crawl, and two errors: an item
\* whose summarizing failed is summarized again
RetryCrawls == 1
RetryFaults == 2

RetryInit ==
    /\ PackerIdle
    /\ QueueIdle
    /\ config = PipelineConfig
    /\ PipeEmpty
    /\ chunker = <<chunkerIdle>>
    /\ summarizer = <<summarizerIdle>>
    /\ chunkerWorker = workerStarted(1)
    /\ summarizerWorker = workerStarted(1)
    /\ crawlsLeft = RetryCrawls
    /\ faultsLeft = RetryFaults
    /\ callsLeft = 0

RetrySpec == RetryInit /\ [][Next]_vars

\* one chunker over one crawled item of 1 to MaxGroupChunks chunks, for
\* each window and step of createChunkGroups up to MaxPerGroup; one
\* statement may throw
MaxGroupChunks == 5
MaxPerGroup == 3
GroupFaults == 1

\* a text of n sentences, which PipelineConfig cuts into n chunks
GroupText(n) == join([k \in 1..n |-> <<"A", "b">>], <<".", " ">>)

GroupConfigs ==
    {ChunkingConfig(1, 1, 0, perGroup, maxPerGroup) :
         perGroup \in 1..MaxPerGroup, maxPerGroup \in 1..MaxPerGroup}

GroupInit ==
    /\ PackerIdle
    /\ QueueIdle
    /\ config \in {c \in GroupConfigs : c.chunksPerGroup <= c.maxChunksPerGroup}
    /\ \E n \in 1..MaxGroupChunks :
           crawled_content = saveCrawledContent({}, "u1", GroupText(n), 1)
    /\ content_chunks = {}
    /\ chunk_groups = {}
    /\ summarized_content = {}
    /\ partial_summaries = [id \in 1..Cardinality(Urls) |-> <<>>]
    /\ chunker = <<chunkerIdle>>
    /\ summarizer = <<>>
    /\ chunkerWorker = workerStarted(1)
    /\ summarizerWorker = workerStarted(0)
    /\ crawlsLeft = 0
    /\ faultsLeft = GroupFaults
    /\ callsLeft = 0

GroupNext ==
    \/ ChunkerSelect
    \/ ChunkerChunk
    \/ ChunkerSaveChunk
    \/ ChunkerSaveGroup
    \/ ChunkerMarkChunked
    \/ ChunkerMarkFailed
    \/ ChunkerContinue
    \/ ChunkerWake

GroupSpec == GroupInit /\ [][GroupNext]_vars

\* one instance of each worker class, started, with calls of start, stop
\* and cleanup arriving while the loops run; no other error occurs
LoopCrawls == 1
MaxCalls == 2

LoopInit ==
    /\ PackerIdle
    /\ QueueIdle
    /\ config = PipelineConfig
    /\ PipeEmpty
    /\ chunker = <<chunkerIdle>>
    /\ summarizer = <<summarizerIdle>>
    /\ chunkerWorker = workerStarted(1)
    /\ summarizerWorker = workerStarted(1)
    /\ crawlsLeft = LoopCrawls
    /\ faultsLeft = 0
    /\ callsLeft = MaxCalls

LoopNext ==
    \/ Crawl
    \/ ChunkerSelect
    \/ ChunkerChunk
    \/ ChunkerSaveChunk
    \/ ChunkerSaveGroup
    \/ ChunkerMarkChunked
    \/ ChunkerMarkFailed
    \/ ChunkerContinue
    \/ ChunkerWake
    \/ SummarizerSelect
    \/ SummarizerLoadGroups
    \/ SummarizerSummarize
    \/ SummarizerMarkGroup
    \/ SummarizerFinal
    \/ SummarizerSave
    \/ SummarizerCleanup
    \/ SummarizerContinue
    \/ SummarizerWake
    \/ ChunkerPollEmpty
    \/ SummarizerPollEmpty
    \/ StartChunker
    \/ StopChunker
    \/ CleanupChunker
    \/ ExitChunker
    \/ StartSummarizer
    \/ StopSummarizer
    \/ CleanupSummarizer
    \/ DisconnectRedis
    \/ ExitSummarizer

LoopSpec == LoopInit /\ [][LoopNext]_vars

(***************************************************************************)
(* Claims about chunkText (checked under ChunkSpec)                        *)
(***************************************************************************)

\* the non-overlap region of emitted chunk k, whitespace removed: the chunk
\* without the overlap seed it was started with
nonOverlapRegion(k) ==
    SubSeq(stripWs(chunks[k]), Len(stripWs(seeds[k])) + 1, Len(stripWs(chunks[k])))

\* C1: when chunkText returns, every emitted chunk starts with the overlap
\* seed copied from its predecessor, and the non-overlap regions of the
\* chunks, concatenated in index order, are the input text (compared with
\* whitespace removed): no span of the input is missing from all chunks.
C1_Coverage ==
    cpc = "done" =>
        /\ Len(seeds) = Len(chunks)
        /\ \A k \in 1..Len(chunks) :
               SubSeq(stripWs(chunks[k]), 1, Len(stripWs(seeds[k]))) = stripWs(seeds[k])
        /\ Flatten([k \in 1..Len(chunks) |-> nonOverlapRegion(k)]) = stripWs(text)

\* chunkText returned three chunks or more, one of them seeded with a
\* non-empty overlap
C1_Witness ==
    /\ cpc = "done"
    /\ Len(chunks) >= 3
    /\ \E k \in 1..Len(chunks) : stripWs(seeds[k]) # <<>>

\* C2: for a non-empty text without any boundary that is longer than
\* maxCharsPerChunk, chunkText returns the fixed-width fallback slices and
\* not one chunk holding the whole text.
C2_FallbackSlices ==
    (/\ cpc = "done"
     /\ Len(text) > config.maxCharsPerChunk
     /\ findTextBoundaries(text) = <<>>)
    => /\ chunks = fallbackChunking(text, config)
       /\ chunks # <<trim(text)>>

(***************************************************************************)
(* Claims about the stored statuses and rows (checked under Spec)          *)
(***************************************************************************)

\* instance w of the chunker takes the step in which processContent returns
chunkerReturns(w) ==
    /\ chunker[w].pc \notin {"idle", "returned"}
    /\ chunker'[w].pc = "returned"

\* the chunk_index values stored for a content item
chunkIndexes(table, contentId) ==
    {r.chunk_index : r \in {q \in table : q.crawled_content_id = contentId}}

\* C3: in the step that marks a content item chunked after chunkText gave N
\* chunks for it, the chunk rows stored for the item have the chunk_index
\* values 0..N-1 and no other; stated for behaviours in which no statement
\* has failed.
C3_ChunkIndexesExact ==
    [][\A w \in DOMAIN chunker :
          (/\ faultsLeft = MaxFaults
           /\ chunkerReturns(w)
           /\ chunker'[w].result = TRUE)
          => chunkIndexes(content_chunks', chunker'[w].content.id)
                 = 0..(Len(chunker[w].textChunks) - 1)]_vars

C6_ZeroOutputFails ==
    [][\A w \in DOMAIN chunker :
          (/\ chunkerReturns(w)
           /\ \/ chunker'[w].textChunks = <<>>
              \/ chunker'[w].savedChunks = <<>>
              \/ chunker'[w].savedGroupsCount = 0)
          => \E r \in crawled_content' :
                 r.id = chunker'[w].content.id /\ r.status = "failed"]_vars

(***************************************************************************)
(* Claims about the final summary (checked under Spec and DupSpec)         *)
(***************************************************************************)

\* instance w of the summarizer has made the final summary of its article
finalMade(w) == summarizer[w].pc = "save"

\* C7: when all pending groups of an article were attempted in one call of
\* processArticle and one at least gave a partial summary, the final
\* summary is made from exactly the partial summaries that call produced,
\* in their order.
C7_FinalFromSucceeded ==
    \A w \in DOMAIN summarizer :
        finalMade(w)
        => summarizer[w].finalSummary
               = createFinalSummary(summarizer[w].produced, summarizer[w].contentData)

\* C8: when the one chunk group of an article was summarized, the final
\* summary that is saved is that group's partial summary, and no merge
\* completion was made.
C8_SingleGroupPromoted ==
    \A w \in DOMAIN summarizer :
        (/\ finalMade(w)
         /\ Len(summarizer[w].produced) = 1
         /\ Cardinality({g \in chunk_groups :
                g.crawled_content_id = summarizer[w].contentData.id}) = 1)
        => /\ summarizer[w].finalSummary = summarizer[w].produced[1]
           /\ summarizer[w].finalSummary.summary.op # "merge"

\* C9: the partial summaries a merge completion is made from are in
\* strictly ascending order of the index of their groups.
C9_MergeOrderAscending ==
    \A w \in DOMAIN summarizer :
        (finalMade(w) /\ Len(summarizer[w].partialSummaries) > 1)
        => \A j, k \in 1..Len(summarizer[w].partialSummaries) :
               j < k => summarizer[w].partialSummaries[j].summary.context.part
                            < summarizer[w].partialSummaries[k].summary.context.part

\* C10: with two summarizer instances and no failing statement or
\* completion, a chunk row is stored once per (item, chunk_index), a group
\* row once per (item, group_index), a final summary once per url, and a
\* final summary is made from one partial summary per summarized group.
C10_DuplicateProcessingSafe ==
    faultsLeft = DupFaults =>
        /\ \A r, q \in content_chunks :
               (r.crawled_content_id = q.crawled_content_id
                /\ r.chunk_index = q.chunk_index) => r = q
        /\ \A r, q \in chunk_groups :
               (r.crawled_content_id = q.crawled_content_id
                /\ r.group_index = q.group_index) => r = q
        /\ \A r, q \in summarized_content : r.url = q.url => r = q
        /\ \A w \in DOMAIN summarizer :
               finalMade(w)
               => \A j, k \in 1..Len(summarizer[w].partialSummaries) :
                      j # k => summarizer[w].partialSummaries[j].chunk_group_id
                                   # summarizer[w].partialSummaries[k].chunk_group_id

(***************************************************************************)
(* Claims about the chunking stage run again (checked under Spec)          *)
(***************************************************************************)

\* instance w of the chunker takes the step that marks its item chunked
marksChunked(w) ==
    /\ chunker[w].pc = "markChunked"
    /\ chunker'[w].pc = "returned"
    /\ chunker'[w].result = TRUE

C12_WriteFailureFails ==
    [][\A w \in DOMAIN chunker :
          (/\ chunkerReturns(w)
           /\ \/ Len(chunker'[w].savedChunks) < Len(chunker'[w].textChunks)
              \/ /\ chunker'[w].savedChunks # <<>>
                 /\ chunker'[w].savedGroupsCount
                        < Len(createChunkGroups(chunker'[w].savedChunks, config)))
          => \E r \in crawled_content' :
                 r.id = chunker'[w].content.id /\ r.status = "failed"]_vars

(***************************************************************************)
(* Claims about the rows of a batch (checked under Spec)                   *)
(***************************************************************************)

\* instance w of the summarizer takes the step in which processArticle
\* returns
summarizerReturns(w) ==
    /\ summarizer[w].pc \notin {"idle", "returned"}
    /\ summarizer'[w].pc = "returned"

\* C13: when processContent returns for a row of a batch, the call has
\* written chunked or failed to the content item; when processArticle
\* returns for an article of a batch, the call has written summarized or
\* failed to every pending group it loaded for the article.
C13_BatchRowsTerminal ==
    [][/\ \A w \in DOMAIN chunker :
              chunkerReturns(w) => chunker'[w].written \in {"chunked", "failed"}
       /\ \A w \in DOMAIN summarizer :
              summarizerReturns(w)
              => summarizer'[w].g = Len(summarizer'[w].contentData.groups)]_vars

(***************************************************************************)
(* Claims about start, stop and cleanup (checked under LoopSpec)           *)
(***************************************************************************)

\* loop w of the summarizer has made the completion call for a group and
\* has not yet finished the status update of that group
groupInFlight(w) == summarizer[w].pc = "markGroup"

\* the group_index of the group loop w is working on
currentGroupIndex(w) ==
    summarizer[w].contentData.groups[summarizer[w].g + 1].group_index

\* C14: within one content item the groups are summarized in ascending
\* group_index order and one at a time: the groups a loop holds for an
\* item are in strictly ascending order of group_index, and the loops of
\* one worker instance never have two groups of the same item in flight
\* at once.
C14_GroupsOneAtATime ==
    /\ \A w \in DOMAIN summarizer :
           summarizer[w].pc \notin {"idle", "load", "delay", "stopped"}
           => \A a, b \in DOMAIN summarizer[w].contentData.groups :
                  a < b => summarizer[w].contentData.groups[a].group_index
                             < summarizer[w].contentData.groups[b].group_index
    /\ \A w1, w2 \in DOMAIN summarizer :
           (/\ w1 # w2
            /\ summarizerWorker.loopOf[w1] = summarizerWorker.loopOf[w2]
            /\ groupInFlight(w1)
            /\ groupInFlight(w2))
           => summarizer[w1].contentData.id # summarizer[w2].contentData.id

(***************************************************************************)
(* Claims about processArticle and the staging buffer                      *)
(***************************************************************************)

\* loop w takes the step in which the completion for its current group
\* fails and the group is marked failed
groupFails(w) ==
    /\ summarizer[w].pc = "summarize"
    /\ summarizer'[w] # summarizer[w]
    /\ \E r \in chunk_groups' :
           /\ r.id = summarizer[w].contentData.groups[summarizer[w].g + 1].id
           /\ r.status = "failed"
    /\ chunk_groups' # chunk_groups

\* loop w takes the step in which the merge completion fails
mergeFails(w) ==
    /\ summarizer[w].pc = "final"
    /\ summarizer'[w].pc = "returned"
    /\ summarizer'[w].error = "merge"

\* C15: a summarizer error for one group does not keep the remaining
\* groups of the item from being attempted (the loop goes on to the next
\* group); a merge error changes no row of the store and leaves the batch
\* as it was; and whatever processArticle returned, the batch goes on to
\* its next article.
C15_ErrorsAreIsolated ==
    [][\A w \in DOMAIN summarizer :
          /\ (groupFails(w) /\ summarizer[w].g + 1 < Len(summarizer[w].contentData.groups))
             => /\ summarizer'[w].pc = "summarize"
                /\ summarizer'[w].g = summarizer[w].g + 1
                /\ summarizer'[w].contentData = summarizer[w].contentData
          /\ mergeFails(w)
             => /\ summarizer'[w].result = FALSE
                /\ summarizer'[w].batch = summarizer[w].batch
                /\ UNCHANGED <<crawled_content, content_chunks, chunk_groups,
                               summarized_content, partial_summaries>>
          /\ (summarizer[w].pc = "returned" /\ summarizer'[w] # summarizer[w]
                 /\ Len(summarizer[w].batch) > 1)
             => /\ summarizer'[w].pc = "load"
                /\ summarizer'[w].batch = Tail(summarizer[w].batch)]_vars

\* the merge completion failed for the first article of a batch and the
\* second article of the batch has been finalized
C15_Witness ==
    \E w \in DOMAIN summarizer :
        /\ summarizer[w].pc = "returned"
        /\ summarizer[w].result = TRUE
        /\ \E k \in DOMAIN summarizer[w].results :
               summarizer[w].results[k].error = "merge"

\* C16: after a merge error the partial summaries of the item stay in the
\* staging buffer and the item is one the query of the next pass returns,
\* that is, one that has a pending group.
C16_MergeErrorRetried ==
    [][\A w \in DOMAIN summarizer :
          mergeFails(w)
          => /\ lRange(partial_summaries', summarizer[w].contentData.id) # <<>>
             /\ \E g \in chunk_groups' :
                    /\ g.crawled_content_id = summarizer[w].contentData.id
                    /\ g.status = "pending"]_vars

\* loop w takes the step that ends the attempt of the last pending group
\* of its article, without a statement having thrown
allGroupsAttempted(w) ==
    /\ summarizer[w].pc \in {"summarize", "markGroup"}
    /\ summarizer'[w].pc \in {"returned", "final"}
    /\ summarizer'[w].error # "statement"

\* C17: when all pending groups of an article have been attempted, the
\* article is abandoned (processArticle returns false with no merge call
\* and no final summary) if and only if its staging list is empty then.
C17_AbandonedIffBufferEmpty ==
    [][\A w \in DOMAIN summarizer :
          allGroupsAttempted(w)
          => (summarizer'[w].pc = "returned"
              <=> lRange(partial_summaries', summarizer[w].contentData.id) = <<>>)]_vars

\* the final record of the article of loop w is in summarized_content
finalPersisted(w) ==
    \E r \in summarized_content :
        /\ r.url = summarizer[w].finalSummary.url
        /\ r.crawled_content_id = summarizer[w].contentData.id
        /\ r.summary = summarizer[w].finalSummary.summary
        /\ ~r.is_partial_summary

C19_InFlightBatchKeepsStore ==
    /\ \A w \in DOMAIN chunker :
           chunker[w].pc \notin {"idle", "delay", "stopped"}
           => ~clientEnded(chunkerWorker, w)
    /\ \A w \in DOMAIN summarizer :
           summarizer[w].pc \notin {"idle", "delay", "stopped"}
           => /\ ~clientEnded(summarizerWorker, w)
              /\ ~redisClientEnded(summarizerWorker, w)

(***************************************************************************)
(* Claims about the size of the chunks (checked under ChunkSpec)           *)
(***************************************************************************)

\* the loop body emits the chunk under construction in this step
emitsChunk == cpc = "loop" /\ Len(chunks') = Len(chunks) + 1

\* the token_count saveChunks stores with a chunk (lines 220-222)
tokenCount(chunk) == estimateTokenCount(chunk)

\* the iteration that follows is a forced append
forcedAppendFollows == bpos < Len(boundaries) /\ nextBranch = "force"

\* C20: every chunk the loop of chunkText emits has a stored token_count
\* of at least minTokensPerChunk, unless it is the last chunk of the text
\* or the iteration after its emission is a forced append.
C20_ChunkMinimum ==
    [][(emitsChunk /\ bpos' = bpos + 1)
          => \/ tokenCount(chunks'[Len(chunks')]) >= config.minTokensPerChunk
             \/ Len(chunks') = Len(chunkText(text, config))
             \/ forcedAppendFollows']_vars

(***************************************************************************)
(* Claims about createChunkGroups (checked under GroupSpec)                *)
(***************************************************************************)

\* loop w of the chunker holds the groups createChunkGroups returned
groupsCreated(w) == chunker[w].pc \in {"saveGroups", "markChunked", "markFailed"}

\* C21: for N >= 1 saved chunks, step S = chunksPerGroup and window
\* W = maxChunksPerGroup >= S, createChunkGroups returns ceil(N/S) groups
\* with group_index 0 .. ceil(N/S)-1, and the group of index g holds the
\* chunks at positions g*S .. min(g*S+W, N)-1, in order.
C21_GroupWindows ==
    \A w \in DOMAIN chunker :
        groupsCreated(w)
        => LET saved == chunker[w].savedChunks
               made  == chunker[w].chunkGroups
               N == Len(saved)
               S == config.chunksPerGroup
               W == config.maxChunksPerGroup
           IN  /\ Len(made) = (N + S - 1) \div S
               /\ \A g \in 0..(Len(made) - 1) :
                      LET first == g * S
                          last  == IF first + W < N THEN first + W ELSE N
                      IN  /\ made[g + 1].group_index = g
                          /\ Len(made[g + 1].chunk_ids) = last - first
                          /\ \A k \in 1..(last - first) :
                                 made[g + 1].chunk_ids[k] = saved[first + k].id

\* five chunks grouped with the default step 2 and window 3: three groups,
\* the first two of three chunks, the last of one
C21_Witness ==
    \E w \in DOMAIN chunker :
        /\ groupsCreated(w)
        /\ Len(chunker[w].savedChunks) = 5
        /\ config.chunksPerGroup = 2 /\ config.maxChunksPerGroup = 3
        /\ Len(chunker[w].chunkGroups) = 3
        /\ Len(chunker[w].chunkGroups[3].chunk_ids) = 1

\* C22: token counts are ceil(length/4) of the span they describe: while
\* the loop of chunkText runs, the running count of the chunk under
\* construction is ceil(len(currentChunk)/4); and every row of
\* content_chunks has token_count = ceil(len(chunk_text)/4).
C22_TokenCountsConsistent ==
    /\ cpc = "loop" => currentTokens = (Len(currentChunk) + 3) \div 4
    /\ \A r \in content_chunks : r.token_count = (Len(r.chunk_text) + 3) \div 4

(***************************************************************************)
(* Claims about saveSummary and the summarizer calls                       *)
(***************************************************************************)

\* loop w takes the step in which saveSummary stores its final summary
savesFinal(w) == summarizer[w].pc = "save" /\ summarizer'[w].pc = "cleanup"

\* C23: saving a final summary is an upsert by url: afterwards the table
\* holds one row for the url, and every field of that row equals the field
\* of the final summary just produced.
C23_UpsertStoresAllFields ==
    [][\A w \in DOMAIN summarizer :
          savesFinal(w)
          => LET final == summarizer[w].finalSummary
                 rows  == {r \in summarized_content' : r.url = final.url}
             IN  /\ Cardinality(rows) = 1
                 /\ \A r \in rows :
                        /\ r.summary = final.summary
                        /\ r.crawled_content_id = final.crawled_content_id
                        /\ r.is_partial_summary = final.is_partial_summary
                        /\ r.original_text = final.original_text
                        /\ r.crawled_at = final.crawled_at
                        /\ r.chunk_group_id = final.chunk_group_id]_vars

(***************************************************************************)
(* Claims about the waits of the loops (checked under LoopSpec)            *)
(***************************************************************************)

\* a loop goes from its batch to its wait in this step
chunkerStartsWait(w) == chunker[w].pc # "delay" /\ chunker'[w].pc = "delay"
summarizerStartsWait(w) == summarizer[w].pc # "delay" /\ summarizer'[w].pc = "delay"

\* C24: in each loop the idle wait is taken exactly when the batch found
\* no eligible row, the short wait exactly when it found at least one
\* (whether or not a row succeeded), an error that leaves the batch gives
\* a wait at least as long as both, and no wait is of length zero.
C24_DelaysFollowBatch ==
    [][/\ \A w \in DOMAIN chunker :
              chunkerStartsWait(w)
              => LET st == chunker'[w]
                 IN  /\ st.delay = ChunkerIdleDelay <=> (~st.threw /\ st.found = 0)
                     /\ st.delay = ChunkerBatchDelay <=> (~st.threw /\ st.found > 0)
                     /\ st.threw => (st.delay >= ChunkerIdleDelay
                                     /\ st.delay >= ChunkerBatchDelay)
                     /\ st.delay > 0
       /\ \A w \in DOMAIN summarizer :
              summarizerStartsWait(w)
              => LET st == summarizer'[w]
                 IN  /\ st.delay = SummarizerIdleDelay <=> (~st.threw /\ st.found = 0)
                     /\ st.delay = SummarizerBatchDelay <=> (~st.threw /\ st.found > 0)
                     /\ st.threw => (st.delay >= SummarizerIdleDelay
                                     /\ st.delay >= SummarizerBatchDelay)
                     /\ st.delay > 0]_vars

(***************************************************************************)
(* Claims about the context of a group's prompt (checked under Spec)       *)
(***************************************************************************)

\* loop w is about to call summarizeChunkGroup for its current group
invokesSummarizer(w) == summarizer[w].pc = "summarize"

\* the context that call puts into its prompts (processArticle lines 409-416)
invocationContext(w) ==
    contextInfo(currentGroupIndex(w), Len(summarizer[w].contentData.groups))

\* all the chunk groups of the item loop w is working on
groupsOfItem(w) ==
    {r \in chunk_groups : r.crawled_content_id = summarizer[w].contentData.id}

\* C25: in every call of the group summarizer the context "part k of n" has
\* n equal to the number of chunk groups of the content item and k equal to
\* the 1-based position of the group among them, so 1 <= k <= n, and the
\* group is called the complete article only when the item has one group.
C25_PartOfTotal ==
    \A w \in DOMAIN summarizer :
        invokesSummarizer(w)
        => LET ctx == invocationContext(w)
               k   == 1 + Cardinality({r \in groupsOfItem(w) :
                                          r.group_index < currentGroupIndex(w)})
           IN  IF ctx.complete
               THEN Cardinality(groupsOfItem(w)) = 1
               ELSE /\ ctx.parts = Cardinality(groupsOfItem(w))
                    /\ ctx.part = k
                    /\ 1 <= ctx.part /\ ctx.part <= ctx.parts

(***************************************************************************)
(* Claims about the maximum and the overlap (checked under ChunkSpec)      *)
(***************************************************************************)

\* the loop body handles one segment in this step
packsSegment == cpc = "loop" /\ bpos' = bpos + 1

\* what the chunk under construction held just before the segment of this
\* step was appended to it: the overlap seed (or nothing) after a finalize
chunkBeforeSegment == IF nextBranch = "finalize" THEN curSeed' ELSE currentChunk

\* the segment of this step pushes the chunk under construction over the
\* maximum, and that chunk is one of the chunks chunkText returns
pushedOverMaximum ==
    /\ packsSegment
    /\ tokenCount(chunkBeforeSegment) <= config.maxTokensPerChunk
    /\ tokenCount(trim(currentChunk')) > config.maxTokensPerChunk
    /\ Len(chunkText(text, config)) > Len(chunks')
    /\ chunkText(text, config)[Len(chunks') + 1] = trim(currentChunk')

\* C26: a chunk the packer emits has more than maxTokensPerChunk tokens
\* only if it was empty or held fewer than minTokensPerChunk tokens just
\* before the segment that pushed it over the maximum was appended.
C26_MaximumUnlessTooSmall ==
    [][pushedOverMaximum
          => \/ chunkBeforeSegment = <<>>
             \/ tokenCount(chunkBeforeSegment) < config.minTokensPerChunk]_vars

\* the last n characters of a chunk
suffixOf(chunk, n) == SubSeq(chunk, Len(chunk) - n + 1, Len(chunk))

\* the loop body finalizes the chunk under construction in this step and
\* an overlap is configured
finalizesWithOverlap ==
    packsSegment /\ nextBranch = "finalize" /\ config.overlapTokens > 0

\* the segment the loop body handles in this step
segmentOfStep == slice(text, lastBoundary, boundaries[bpos + 1].index)

\* C27: when the packer finalizes a chunk and overlapTokens > 0, the next
\* chunk under construction starts with a seed that is a suffix of the
\* chunk just finalized, of at most overlapTokens * 4 characters and the
\* whole chunk when the chunk is no longer than that, and the seed is
\* followed at once by the new segment.
C27_SeedIsSuffixThenSegment ==
    [][finalizesWithOverlap
          => LET seed   == curSeed'
                 budget == config.overlapTokens * 4
             IN  /\ Len(seed) <= Len(currentChunk)
                 /\ seed = suffixOf(currentChunk, Len(seed))
                 /\ Len(seed) <= budget
                 /\ Len(currentChunk) <= budget => seed = currentChunk
                 /\ currentChunk' = seed \o segmentOfStep]_vars

\* a chunk longer than the overlap budget was finalized: the chunk under
\* construction starts with a proper suffix of it and holds a segment
C27_Witness ==
    /\ cpc = "loop"
    /\ config.overlapTokens > 0
    /\ Len(chunks) >= 1
    /\ curSeed # <<>>
    /\ Len(curSeed) < Len(chunks[Len(chunks)])
    /\ Len(currentChunk) > Len(curSeed)

(***************************************************************************)
(* Claims about the members of stored groups (checked under GroupSpec)     *)
(***************************************************************************)

\* the stored chunk rows with this id
chunkRows(id) == {c \in content_chunks : c.id = id}

\* the chunk_index of the stored chunk with this id
chunkIndexOf(id) == (CHOOSE c \in content_chunks : c.id = id).chunk_index

\* C28: every stored chunk group consists of chunks of one content item
\* whose chunk_index values are consecutive and ascending, and its chunk_ids
\* hold one id per member chunk in that order, also when a chunk write of
\* the item failed.
C28_GroupMembersConsecutive ==
    \A r \in chunk_groups :
        /\ \A k \in 1..Len(r.chunk_ids) :
               /\ Cardinality(chunkRows(r.chunk_ids[k])) = 1
               /\ \A c \in chunkRows(r.chunk_ids[k]) :
                      c.crawled_content_id = r.crawled_content_id
        /\ \A k \in 1..(Len(r.chunk_ids) - 1) :
               chunkIndexOf(r.chunk_ids[k + 1]) = chunkIndexOf(r.chunk_ids[k]) + 1

(***************************************************************************)
(* Claims about the response of the group summarizer (checked under Spec)  *)
(***************************************************************************)

\* loop w receives in this step, for its current group, a response that is
\* not empty and is not JSON text of an object with the fields asked for,
\* and no statement of the step fails
malformedResponse(w) ==
    /\ summarizer[w].pc = "summarize"
    /\ summarizer'[w].pc # "summarize" \/ summarizer'[w].g # summarizer[w].g
    /\ summarizer'[w].response \in {"text", "value", "null"}
    /\ summarizer'[w].error = "none"

\* the fallback summary of lines 208-213
isFallbackSummary(summary) ==
    /\ summary.text = "responseContent.substring(0, 500)"
    /\ summary.key_points = <<"Content analysis available">>
    /\ summary.category \in {"General", "Programming"}
    /\ summary.sentiment = "neutral"

\* C29: when the summarizer returns a response that is not empty and cannot
\* be parsed as the structured result asked for, the group is not failed: a
\* fallback partial summary (the truncated raw response, one placeholder key
\* point, the default category, neutral sentiment) is staged and the group
\* goes on to be marked summarized.
C29_MalformedResponseFallsBack ==
    [][\A w \in DOMAIN summarizer :
          malformedResponse(w)
          => LET id    == summarizer[w].contentData.id
                 group == summarizer[w].contentData.groups[summarizer[w].g + 1]
             IN  /\ \A r \in chunk_groups' : r.id = group.id => r.status # "failed"
                 /\ summarizer'[w].pc = "markGroup"
                 /\ Len(partial_summaries'[id]) = Len(partial_summaries[id]) + 1
                 /\ isFallbackSummary(Head(partial_summaries'[id]).summary)
                 /\ Head(partial_summaries'[id]).chunk_group_id = group.id]_vars

(***************************************************************************)
(* The loops under fair scheduling: a batch and a wait come to an end      *)
(***************************************************************************)
ChunkerLoopStep ==
    \/ ChunkerSelect
    \/ ChunkerPollEmpty
    \/ ChunkerChunk
    \/ ChunkerSaveChunk
    \/ ChunkerSaveGroup
    \/ ChunkerMarkChunked
    \/ ChunkerMarkFailed
    \/ ChunkerContinue
    \/ ChunkerWake
    \/ ExitChunker

SummarizerLoopStep ==
    \/ SummarizerSelect
    \/ SummarizerPollEmpty
    \/ SummarizerLoadGroups
    \/ SummarizerSummarize
    \/ SummarizerMarkGroup
    \/ SummarizerFinal
    \/ SummarizerSave
    \/ SummarizerCleanup
    \/ SummarizerContinue
    \/ SummarizerWake
    \/ ExitSummarizer

\* one instance of each worker class, started, over a store that holds one
\* crawled item of one chunk; start, stop and cleanup are called MaxCalls
\* times in all, and the step a loop can take is taken in the end
StopInit ==
    /\ PackerIdle
    /\ QueueIdle
    /\ config = PipelineConfig
    /\ crawled_content = saveCrawledContent({}, "u1", GroupText(1), 1)
    /\ content_chunks = {}
    /\ chunk_groups = {}
    /\ summarized_content = {}
    /\ partial_summaries = [id \in 1..Cardinality(Urls) |-> <<>>]
    /\ chunker = <<chunkerIdle>>
    /\ summarizer = <<summarizerIdle>>
    /\ chunkerWorker = workerStarted(1)
    /\ summarizerWorker = workerStarted(1)
    /\ crawlsLeft = 0
    /\ faultsLeft = 0
    /\ callsLeft = MaxCalls

StopNext ==
    \/ ChunkerLoopStep
    \/ SummarizerLoopStep
    \/ StartChunker
    \/ StopChunker
    \/ CleanupChunker
    \/ StartSummarizer
    \/ StopSummarizer
    \/ CleanupSummarizer
    \/ DisconnectRedis

StopSpec ==
    /\ StopInit
    /\ [][StopNext]_vars
    /\ WF_vars(ChunkerLoopStep)
    /\ WF_vars(SummarizerLoopStep)

(***************************************************************************)
(* Claims about stop (checked under StopSpec)                              *)
(***************************************************************************)

\* the flag of the only instance of each worker class
chunkerRunning == chunkerWorker.isRunning[1]
summarizerRunning == summarizerWorker.isRunning[1]

\* every loop of the worker has left "while (this.isRunning)"
chunkerLoopsStopped == \A w \in DOMAIN chunker : chunker[w].pc = "stopped"
summarizerLoopsStopped == \A w \in DOMAIN summarizer : summarizer[w].pc = "stopped"

\* a loop leaves only from between two batches, and with the flag cleared
\* it leaves and selects no further batch
stopReadBetweenBatches ==
    /\ \A w \in DOMAIN chunker :
           /\ (w \in DOMAIN chunker' /\ chunker'[w].pc = "stopped")
              => chunker[w].pc \in {"idle", "stopped"}
           /\ (~chunkerRunning /\ ~chunkerRunning'
                  /\ chunker[w].pc = "idle" /\ chunker'[w].pc # "idle")
              => /\ chunker'[w].pc = "stopped"
                 /\ UNCHANGED <<crawled_content, content_chunks, chunk_groups>>
    /\ \A w \in DOMAIN summarizer :
           /\ (w \in DOMAIN summarizer' /\ summarizer'[w].pc = "stopped")
              => summarizer[w].pc \in {"idle", "stopped"}
           /\ (~summarizerRunning /\ ~summarizerRunning'
                  /\ summarizer[w].pc = "idle" /\ summarizer'[w].pc # "idle")
              => /\ summarizer'[w].pc = "stopped"
                 /\ UNCHANGED <<chunk_groups, summarized_content, partial_summaries>>

\* C30: after stop() on a running coordinator, unless start() is called
\* again, the loop reads the flag only between two batches, starts no batch
\* after the one in flight and in the end terminates (every batch and every
\* wait coming to an end).
C30_StopTerminatesLoop ==
    /\ [][stopReadBetweenBatches]_vars
    /\ ~chunkerRunning ~> (chunkerLoopsStopped \/ chunkerRunning)
    /\ ~summarizerRunning ~> (summarizerLoopsStopped \/ summarizerRunning)

\* stop() was called, and not cleanup(), while a loop was in a batch: the
\* flag is cleared, the clients are open and the batch goes on
C30_Witness ==
    /\ ~chunkerRunning /\ ~chunkerWorker.ended[1]
    /\ \E w \in DOMAIN chunker :
           chunker[w].pc \in {"saveChunks", "saveGroups", "markChunked"}

(***************************************************************************)
(* Claims about start after stop (checked under LoopSpec)                  *)
(***************************************************************************)

\* the loops of instance i of a worker class that are inside processBatch
loopsInBatch(worker, loops, i) ==
    {w \in DOMAIN loops : /\ worker.loopOf[w] = i
                          /\ loops[w].pc \notin {"idle", "delay", "stopped"}}

\* C31: a worker instance has at most one active loop at any time, under
\* every interleaving of start() and stop(): stop() followed by start()
\* while a batch of the first loop is in flight does not leave two loops
\* of the instance processing batches at the same time.
C31_OneLoopPerInstance ==
    /\ \A i \in DOMAIN chunkerWorker.isRunning :
           Cardinality(loopsInBatch(chunkerWorker, chunker, i)) <= 1
    /\ \A i \in DOMAIN summarizerWorker.isRunning :
           Cardinality(loopsInBatch(summarizerWorker, summarizer, i)) <= 1

(***************************************************************************)
(* A chunker that keeps running over a store of pending items              *)
(***************************************************************************)
\* the items of the store: one more than a batch holds
StarveItems == ChunkerBatchSize + 1

StarveUrls == <<"u1", "u2", "u3", "u4">>

\* the store after the items were crawled in the order of StarveUrls, each
\* with an empty text or a text of one chunk
RECURSIVE crawledInOrder(_, _)
crawledInOrder(texts, n) ==
    IF n = 0 THEN {}
    ELSE saveCrawledContent(crawledInOrder(texts, n - 1), StarveUrls[n], texts[n], n)

\* one chunker instance, started; no crawl, no failing statement, no call
\* of stop or cleanup
StarveInit ==
    /\ PackerIdle
    /\ QueueIdle
    /\ config = PipelineConfig
    /\ \E texts \in [1..StarveItems -> {<<>>, GroupText(1)}] :
           crawled_content = crawledInOrder(texts, StarveItems)
    /\ content_chunks = {}
    /\ chunk_groups = {}
    /\ summarized_content = {}
    /\ partial_summaries = [id \in 1..Cardinality(Urls) |-> <<>>]
    /\ chunker = <<chunkerIdle>>
    /\ summarizer = <<>>
    /\ chunkerWorker = workerStarted(1)
    /\ summarizerWorker = workerStarted(0)
    /\ crawlsLeft = 0
    /\ faultsLeft = 0
    /\ callsLeft = 0

StarveNext ==
    \/ ChunkerSelect
    \/ ChunkerPollEmpty
    \/ ChunkerChunk
    \/ ChunkerSaveChunk
    \/ ChunkerSaveGroup
    \/ ChunkerMarkChunked
    \/ ChunkerContinue
    \/ ChunkerWake

\* every batch and every wait of the loop comes to an end
StarveSpec == StarveInit /\ [][StarveNext]_vars /\ WF_vars(StarveNext)

(***************************************************************************)
(* Claims about the progress of the chunker (checked under StarveSpec)     *)
(***************************************************************************)

\* the status of the content item with this id
contentStatus(id) == (CHOOSE r \in crawled_content : r.id = id).status

\* C32: under a chunker that keeps running and no store error, every
\* content item that is pending in the end is chunked or failed, whatever
\* other items are pending: older pending items do not keep a newer one
\* from being selected.
C32_PendingItemsProgress ==
    \A id \in 1..StarveItems :
        (contentStatus(id) = "pending")
            ~> (contentStatus(id) \in {"chunked", "failed"})

(***************************************************************************)
(* Claims about the staging buffer at finalization (checked under Spec)    *)
(***************************************************************************)

\* instance w of the summarizer is about to read the staging buffer of its
\* article (processArticle line 455)
readsBuffer(w) == summarizer[w].pc = "final"

\* C33: when the aggregator reads the staging buffer of a content item for
\* finalization, the buffer holds exactly the partial summaries made in the
\* current pass, one per group that succeeded in it, and none left over
\* from an earlier failed finalization, an earlier processing of the item
\* or another instance.
C33_BufferHoldsCurrentPass ==
    \A w \in DOMAIN summarizer :
        readsBuffer(w)
        => getPartialSummaries(partial_summaries, summarizer[w].contentData.id)
               = summarizer[w].produced

(***************************************************************************)
(* Claims about the status of the item being summarized (checked under     *)
(* Spec)                                                                   *)
(***************************************************************************)

\* instance w makes the call of summarizeChunkGroup for its current group
\* in this step
callsSummarizer(w) ==
    summarizer[w].pc = "summarize" /\ summarizer'[w] # summarizer[w]

\* the content item instance w is working on has the status chunked
itemIsChunked(w) ==
    \E r \in crawled_content :
        r.id = summarizer[w].contentData.id /\ r.status = "chunked"

\* C34: the summarizer stage calls the external summarizer only for groups
\* of a content item whose status is chunked, and writes a final summary
\* only for such an item, never for one that is pending or failed.
C34_SummarizesChunkedItemsOnly ==
    [][\A w \in DOMAIN summarizer :
          (callsSummarizer(w) \/ savesFinal(w)) => itemIsChunked(w)]_vars

(***************************************************************************)
(* Claims about the groups of an item chunked again (checked under Spec)   *)
(***************************************************************************)

\* the group_index values of the group rows stored for a content item
storedGroupIndexes(groups, contentId) ==
    {g.group_index : g \in {r \in groups : r.crawled_content_id = contentId}}

\* C35: when an item has been chunked (again) and every chunk and group of
\* that run was written, the chunk-group rows stored for it are the groups
\* of its latest chunk list: their group_index values are 0 .. G-1 with
\* G = ceil(N / chunksPerGroup), and no row of an earlier chunking is left.
C35_GroupsOfLatestChunking ==
    [][\A w \in DOMAIN chunker :
          (/\ marksChunked(w)
           /\ Len(chunker[w].savedChunks) = Len(chunker[w].textChunks)
           /\ chunker[w].savedGroupsCount = Len(chunker[w].chunkGroups))
          => LET N == Len(chunker[w].savedChunks)
                 S == config.chunksPerGroup
                 G == (N + S - 1) \div S
             IN  storedGroupIndexes(chunk_groups', chunker[w].content.id)
                     = 0..(G - 1)]_vars

(***************************************************************************)
(* Two workers consuming one Redis list                                    *)
(***************************************************************************)
QueueInit ==
    /\ PackerIdle
    /\ config = PipelineConfig
    /\ PipeEmpty
    /\ chunker = <<>>
    /\ summarizer = <<>>
    /\ chunkerWorker = workerStarted(0)
    /\ summarizerWorker = workerStarted(0)
    /\ crawlsLeft = 0
    /\ faultsLeft = 0
    /\ callsLeft = 0
    /\ queue = <<>>
    /\ consumer = [w \in 1..Consumers |-> consumerIdle]
    /\ returned = {}
    /\ pushed = 0

QueueNext == QueuePush \/ QueueRead \/ QueueTrim

QueueSpec == QueueInit /\ [][QueueNext]_vars

\* the entries pushed so far that are no longer in the list
removedEntries == (1..pushed) \ {queue[i] : i \in DOMAIN queue}

\* C36: with two workers consuming the same list, every entry that has
\* left the queue was returned by lRange to at least one worker before
C36_RemovedEntriesWereRead == removedEntries \subseteq returned

\* C37: no chunk emitted by chunkText has an empty text, whatever the
\* input text and the configuration, chunks finalized inside the loop
\* included
C37_NoEmptyChunk == \A i \in DOMAIN chunks : chunks[i] # <<>>

(***************************************************************************)
(* chunkText run to its end, the character limits chosen freely            *)
(***************************************************************************)
FallbackPieces == 3

FallbackTexts ==
    UNION {{Flatten(ps) : ps \in [1..n -> Pieces]} : n \in 0..FallbackPieces}

\* the constructor takes any ChunkingConfig: overlapChars below, at and
\* above maxCharsPerChunk
FallbackConfigs ==
    {[c EXCEPT !.overlapChars = c.maxCharsPerChunk + d] :
        c \in Configs, d \in {-4, 0, 1}}

FallbackInit ==
    /\ text \in FallbackTexts
    /\ config \in FallbackConfigs
    /\ boundaries = <<>>
    /\ bpos = 0
    /\ chunks = <<>>
    /\ currentChunk = <<>>
    /\ currentTokens = 0
    /\ lastBoundary = 0
    /\ seeds = <<>>
    /\ curSeed = <<>>
    /\ fidx = 0
    /\ cpc = "start"
    /\ PipeEmpty
    /\ QueueIdle
    /\ chunker = <<>>
    /\ summarizer = <<>>
    /\ chunkerWorker = workerStarted(0)
    /\ summarizerWorker = workerStarted(0)
    /\ crawlsLeft = 0
    /\ faultsLeft = 0
    /\ callsLeft = 0

\* a call that has entered the fallback runs on: the loop takes its next
\* iteration, or returns, whenever it can
FallbackSpec ==
    /\ FallbackInit
    /\ [][ChunkNext]_vars
    /\ WF_vars(FallbackStep)
    /\ WF_vars(FallbackReturn)

\* C38: chunkText terminates for every text and every numeric
\* configuration: once the fallback path is entered the call returns, also
\* when overlapChars >= maxCharsPerChunk
C38_FallbackTerminates == (cpc = "fallback") ~> (cpc = "done")

(***************************************************************************)
(* One item, short or longer than a prompt, chunked and summarized         *)
(***************************************************************************)
PromptSentences == 3

\* a text without any boundary, one character longer than a prompt holds
UnbrokenText == [i \in 1..(PromptChars + 1) |-> "x"]

PromptTexts == {GroupText(n) : n \in 1..PromptSentences} \cup {UnbrokenText}

PromptInit ==
    /\ PackerIdle
    /\ QueueIdle
    /\ config = PipelineConfig
    /\ \E raw_text \in PromptTexts :
           crawled_content = saveCrawledContent({}, "u1", raw_text, 1)
    /\ content_chunks = {}
    /\ chunk_groups = {}
    /\ summarized_content = {}
    /\ partial_summaries = [id \in 1..Cardinality(Urls) |-> <<>>]
    /\ chunker = <<chunkerIdle>>
    /\ summarizer = <<summarizerIdle>>
    /\ chunkerWorker = workerStarted(1)
    /\ summarizerWorker = workerStarted(1)
    /\ crawlsLeft = 0
    /\ faultsLeft = 0
    /\ callsLeft = 0

PromptNext ==
    \/ ChunkerSelect
    \/ ChunkerPollEmpty
    \/ ChunkerChunk
    \/ ChunkerSaveChunk
    \/ ChunkerSaveGroup
    \/ ChunkerMarkChunked
    \/ ChunkerContinue
    \/ ChunkerWake
    \/ SummarizerSelect
    \/ SummarizerPollEmpty
    \/ SummarizerLoadGroups
    \/ SummarizerSummarize
    \/ SummarizerMarkGroup
    \/ SummarizerFinal
    \/ SummarizerSave
    \/ SummarizerCleanup
    \/ SummarizerContinue
    \/ SummarizerWake

PromptSpec == PromptInit /\ [][PromptNext]_vars

\* the stored chunk row with this id
chunkRow(id) == CHOOSE c \in content_chunks : c.id = id

\* where the k-th chunk of a group starts in the group's combined text:
\* after the chunks before it and one separator of two characters each
RECURSIVE chunkStart(_, _)
chunkStart(group, k) ==
    IF k = 1 THEN 0
    ELSE chunkStart(group, k - 1)
         + Len(chunkRow(group.chunk_ids[k - 1]).chunk_text) + 2

\* the chunk is the k-th of the group and ends within the part of the
\* combined text the prompt holds, so that each of its characters is sent
chunkIsSent(chunk, group) ==
    \E k \in DOMAIN group.chunk_ids :
        /\ group.chunk_ids[k] = chunk.id
        /\ chunkStart(group, k) + Len(chunk.chunk_text)
               <= Len(promptText(group))

\* the groups of the item were all given to the summarizer
allGroupsSummarized(contentId) ==
    /\ \E g \in chunk_groups : g.crawled_content_id = contentId
    /\ \A g \in chunk_groups :
           g.crawled_content_id = contentId => g.status = "summarized"

\* C39: once the groups of an item have been summarized, every chunk of
\* the item lies, with every character of its text, within the first
\* PromptChars characters of the combined text of some group, the part the
\* prompt holds
C39_EveryCharacterIsSent ==
    \A r \in crawled_content :
        allGroupsSummarized(r.id) =>
            \A c \in {x \in content_chunks : x.crawled_content_id = r.id} :
                \E g \in {x \in chunk_groups : x.crawled_content_id = r.id} :
                    chunkIsSent(c, g)

====
